---- MODULE Spec2Model ----
(***************************************************************************)
(* Model of the dx-monitoring probe: the alert engine (probe/alerter.py),  *)
(* the metadata cache (probe/enricher.py), the capture workers with their  *)
(* coordinator and its report (probe/multiproc_probe.py), the datagram     *)
(* parser, the flow table and the reporter of the single-process probe     *)
(* (probe/vxlan_probe.py), and the mirror-session lifecycle handler        *)
(* (lambda/mirror_lifecycle.py).                                           *)
(*                                                                         *)
(* Time is the integer clock `now` (time.time() read inside a call); it    *)
(* never goes backwards.  A rate comparison  x / interval > threshold  is  *)
(* written  x > threshold * interval, which is the same comparison for the *)
(* positive intervals on which the code evaluates it.                      *)
(***************************************************************************)
EXTENDS Integers, Sequences, FiniteSets, TLC

VARIABLES
    now,                 \* the wall clock read by time.time()
    last_alert_time,     \* FlowAlerter._last_alert_time
    pending_detail,      \* FlowAlerter._pending_detail
    call,                \* the last global-tier call: arguments, pre-state, result
    mon,                 \* history of the emissions of the global tier
    host_threshold_bps,  \* FlowAlerter._host_threshold_bps (0 = disabled)
    host_threshold_pps,  \* FlowAlerter._host_threshold_pps
    host_cooldowns,      \* FlowAlerter._host_cooldowns: ip -> last host-alert time
    report_call,         \* the last _report: its aggregates, the metadata it looked up, the labels
    host_call,           \* the last check_host call: merged input, pre-state, result
    cache,               \* IPEnricher._cache: the published map ip -> metadata
    running,             \* IPEnricher._running
    lock,                \* IPEnricher._lock: "free" or the thread holding it
    main_pc,             \* the thread that calls start(), stop() and the lookups
    bg_pc,               \* the refresher thread (_refresh_loop)
    ref,                 \* the _refresh call in progress, with its local new_cache
    rd,                  \* the enrich / enrich_many call in progress or last returned
    ref_last,            \* how the last completed _refresh ended
    cycles,              \* refresh cycles begun by the refresher thread
    sample_rate,         \* PROBE_SAMPLE_RATE as a fraction <<numerator, denominator>>
    stop_event,          \* Coordinator._stop_event
    queues,              \* Coordinator._queues: per worker, the snapshots enqueued
    wpc,                 \* where each worker process is in _worker_c
    ctx,                 \* each worker's capture context: "none", "open", "destroyed"
    wflows,              \* the snapshot a worker has built and not yet put
    queue_drops,         \* each worker's cumulative_queue_drops
    captured,            \* per snapshot: its producer and the counters cap_flush returned
    cpc,                 \* where the main thread is in start(), _run_loop and main()
    fresh,               \* _run_loop's local fresh
    accumulated,         \* _run_loop's local accumulated
    elapsed,             \* time.monotonic() - last_report, in polls
    raised,              \* an exception left _run_loop
    frames,              \* the stop() activations: of the main flow and of the signal handler
    signals,             \* signals delivered to the main process
    stop_runs,           \* times the shutdown sequence was begun
    enricher_stops,      \* calls of IPEnricher.stop() made by stop()
    reports,             \* the reports _report emitted, in order
    fast_check,          \* the check_fast call of the poll in progress, if it made one
    drain_order,         \* the snapshots taken off the queues, in the order of get_nowait
    sent,                \* the fields of the datagram a sender put on the wire
    data,                \* the datagram recvfrom returned last
    result,              \* what parse_vxlan_packet returned for it
    agg_flows,           \* FlowAggregator._flows: the table object in use
    tables,              \* the table objects: per object, key -> counters
    agg_lock,            \* FlowAggregator._lock: "free" or the thread holding it
    rcv,                 \* the receive thread inside record()
    rep,                 \* the reporter thread inside flush() and _report
    flushed,             \* what each flush result held when _report read it
    recorded,            \* per key, the record() calls that returned
    sinks,               \* the sinks of the environment: SNS_TOPIC_ARN, SLACK_WEBHOOK_URL
    notify,              \* the publishing of the last check: attempts and how it ended
    instances,           \* what describe_instances answers: per instance its subnet and interfaces
    mirror_sessions,     \* the traffic mirror sessions of the account
    mirror_call,         \* the last invocation of the lifecycle handler
    mirror_log           \* events handled, and per instance sessions created and gone events seen

globalVars == <<last_alert_time, pending_detail, call, mon, sinks, notify>>
hostVars == <<host_threshold_bps, host_threshold_pps, host_cooldowns, host_call, report_call>>
cacheVars == <<cache, running, lock, main_pc, bg_pc, ref, rd, ref_last, cycles>>
coordVars == <<sample_rate, stop_event, queues, wpc, ctx, wflows, queue_drops, captured,
               cpc, fresh, accumulated, elapsed, raised, frames, signals, stop_runs,
               enricher_stops, reports, drain_order, fast_check>>
parseVars == <<sent, data, result>>
flowVars == <<agg_flows, tables, agg_lock, rcv, rep, flushed, recorded>>
vxlanVars == <<parseVars, flowVars>>
mirrorVars == <<instances, mirror_sessions, mirror_call, mirror_log>>
otherVars == <<now, globalVars, hostVars, coordVars, vxlanVars, mirrorVars>>
alertVars == <<now, globalVars, hostVars, cacheVars, vxlanVars, mirrorVars>>
vars == <<now, globalVars, hostVars, cacheVars, coordVars, vxlanVars, mirrorVars>>

----------------------------------------------------------------------------
\* Configuration of the alert engine (environment values, fixed at construction)
ThresholdBps == 16
ThresholdPps == 2
CooldownSec == 2

\* Positive values of ALERT_HOST_BPS / ALERT_HOST_PPS
HostBps == 16
HostPps == 2

\* Bounds of the model
MaxTicks == 5
MaxHostTicks == 2
MaxPages == 1
MaxCycles == 2

\* The clock at construction: the epoch clock is far beyond one cooldown.
ClockStart == CooldownSec
MaxNow == ClockStart + MaxTicks

\* Arguments the callers pass
TotalBytes == {2, 3, 5}
TotalPackets == {2, 3}
Intervals == {0, 1, 2}

\* Addresses, and the [packets, bytes] a report aggregates for one address
IPs == {"10.0.1.1", "10.0.1.2"}
Counters == {<<1, 3>>, <<3, 2>>}
\* dict[str, list[int]]: a mapping defined on some of the addresses
Aggs == UNION {[D -> Counters] : D \in SUBSET IPs}
EmptyDict == [ip \in {} |-> 0]

\* Metadata the inventory holds for an address (instance_id, name, asg, owner)
Meta == {"i-old", "i-new"}
\* What one page of describe_instances adds to new_cache
Pages == {EmptyDict} \cup UNION {[{ip} -> Meta] : ip \in IPs}
\* Address lists passed to enrich_many
Batches == {<<"10.0.1.1", "10.0.1.2">>, <<"10.0.1.2">>}
\* Exceptions a refresh raises
Failures == {"ClientError", "Exception"}

----------------------------------------------------------------------------
\* Global tier: check_fast / check_detail

\* A comparison that takes a rate at the threshold for a breach
BreachedAtThreshold(total_bytes, total_packets, interval_sec) ==
    \/ total_bytes * 8 >= ThresholdBps * interval_sec
    \/ total_packets >= ThresholdPps * interval_sec

\* bps > threshold_bps or pps > threshold_pps, for interval_sec > 0
Breached(total_bytes, total_packets, interval_sec) ==
    \/ total_bytes * 8 > ThresholdBps * interval_sec
    \/ total_packets > ThresholdPps * interval_sec

\* A cooldown test that forgets the cooldown length
CooldownElapsedAnyLater(t, last) == t - last >= 0

\* not (now - last < cooldown_sec)
CooldownElapsed(t, last) == ~(t - last < CooldownSec)

Quiet(last, pending) ==
    [ret |-> FALSE, emit |-> "none", last_alert_time |-> last, pending_detail |-> pending]

CheckFastResult(last, pending, total_bytes, total_packets, interval_sec, t) ==
    IF interval_sec <= 0 THEN Quiet(last, pending)
    ELSE IF ~Breached(total_bytes, total_packets, interval_sec) THEN Quiet(last, pending)
    ELSE IF ~CooldownElapsed(t, last) THEN Quiet(last, pending)
    ELSE [ret |-> TRUE, emit |-> "FAST", last_alert_time |-> t, pending_detail |-> TRUE]

\* check_detail whose follow-up leaves pending_detail set
CheckDetailResultKeepsPending(last, pending, total_bytes, total_packets, interval_sec, t) ==
    IF interval_sec <= 0 THEN Quiet(last, pending)
    ELSE LET breached == Breached(total_bytes, total_packets, interval_sec) IN
         IF pending /\ breached
         THEN [ret |-> TRUE, emit |-> "DETAIL", last_alert_time |-> last,
               pending_detail |-> TRUE]
         ELSE IF ~breached THEN Quiet(last, FALSE)
         ELSE IF ~CooldownElapsed(t, last) THEN Quiet(last, FALSE)
         ELSE [ret |-> TRUE, emit |-> "ALERT", last_alert_time |-> t,
               pending_detail |-> FALSE]

\* check_detail whose standalone alert does not stamp last_alert_time
CheckDetailResultNoStamp(last, pending, total_bytes, total_packets, interval_sec, t) ==
    IF interval_sec <= 0 THEN Quiet(last, pending)
    ELSE LET breached == Breached(total_bytes, total_packets, interval_sec) IN
         IF pending /\ breached
         THEN [ret |-> TRUE, emit |-> "DETAIL", last_alert_time |-> last,
               pending_detail |-> FALSE]
         ELSE IF ~breached THEN Quiet(last, FALSE)
         ELSE IF ~CooldownElapsed(t, last) THEN Quiet(last, FALSE)
         ELSE [ret |-> TRUE, emit |-> "ALERT", last_alert_time |-> last,
               pending_detail |-> FALSE]

\* check_detail whose follow-up stamps last_alert_time like a standalone alert
CheckDetailResultStampsDetail(last, pending, total_bytes, total_packets, interval_sec, t) ==
    IF interval_sec <= 0 THEN Quiet(last, pending)
    ELSE LET breached == Breached(total_bytes, total_packets, interval_sec) IN
         IF pending /\ breached
         THEN [ret |-> TRUE, emit |-> "DETAIL", last_alert_time |-> t,
               pending_detail |-> FALSE]
         ELSE IF ~breached THEN Quiet(last, FALSE)
         ELSE IF ~CooldownElapsed(t, last) THEN Quiet(last, FALSE)
         ELSE [ret |-> TRUE, emit |-> "ALERT", last_alert_time |-> t,
               pending_detail |-> FALSE]

CheckDetailResult(last, pending, total_bytes, total_packets, interval_sec, t) ==
    IF interval_sec <= 0 THEN Quiet(last, pending)
    ELSE LET breached == Breached(total_bytes, total_packets, interval_sec) IN
         IF pending /\ breached
         THEN [ret |-> TRUE, emit |-> "DETAIL", last_alert_time |-> last,
               pending_detail |-> FALSE]
         ELSE IF ~breached THEN Quiet(last, FALSE)
         ELSE IF ~CooldownElapsed(t, last) THEN Quiet(last, FALSE)
         ELSE [ret |-> TRUE, emit |-> "ALERT", last_alert_time |-> t,
               pending_detail |-> FALSE]

NoCall ==
    [op |-> "none", total_bytes |-> 0, total_packets |-> 0, interval_sec |-> 0,
     t |-> 0, pre_last |-> 0, pre_pending |-> FALSE, pre_fast_at |-> -1,
     pre_awaiting |-> FALSE, pre_unanswered |-> FALSE,
     ret |-> FALSE, emit |-> "none"]

CallRecord(op, b, p, i, r) ==
    [op |-> op, total_bytes |-> b, total_packets |-> p, interval_sec |-> i,
     t |-> now, pre_last |-> last_alert_time, pre_pending |-> pending_detail,
     pre_fast_at |-> mon.fast_at, pre_awaiting |-> mon.awaiting,
     pre_unanswered |-> mon.unanswered,
     ret |-> r.ret, emit |-> r.emit]

Sat(n) == IF n >= 2 THEN 2 ELSE n + 1

\* The emission history after a call that emitted `emit`
MonInit ==
    [fast_at |-> -1, awaiting |-> FALSE, unanswered |-> FALSE, details_since_fast |-> 0,
     phase |-> "start", pair_at |-> -1, fasts |-> 0, details |-> 0, alerts |-> 0,
     detail_calls |-> 0]

MonAfter(op, breached, emit) ==
    LET m1 == [mon EXCEPT
                 !.fast_at = IF emit = "FAST" THEN now ELSE @,
                 !.awaiting = IF emit = "FAST" THEN TRUE
                              ELSE IF op = "check_detail" THEN FALSE ELSE @,
                 !.unanswered = IF emit = "FAST" THEN TRUE
                                ELSE IF emit = "DETAIL" THEN FALSE ELSE @,
                 !.details_since_fast = IF emit = "FAST" THEN 0
                                        ELSE IF emit = "DETAIL" THEN Sat(@) ELSE @]
        inWindow == mon.pair_at >= 0 /\ now - mon.pair_at < CooldownSec
    IN  IF mon.phase = "start"
        THEN IF op = "check_fast" /\ breached
             THEN [m1 EXCEPT !.phase = "run", !.pair_at = now,
                             !.fasts = IF emit = "FAST" THEN 1 ELSE 0]
             ELSE [m1 EXCEPT !.phase = "off"]
        ELSE IF mon.phase = "run" /\ breached /\ inWindow
        THEN [m1 EXCEPT
                 !.fasts = IF emit = "FAST" THEN Sat(@) ELSE @,
                 !.details = IF emit = "DETAIL" THEN Sat(@) ELSE @,
                 !.alerts = IF emit = "ALERT" THEN Sat(@) ELSE @,
                 !.detail_calls = IF op = "check_detail" THEN Sat(@) ELSE @]
        ELSE [m1 EXCEPT !.phase = "off"]

SeesBreach(b, p, i) == i > 0 /\ Breached(b, p, i)

\* How a publish can end.  sns_client.publish: accepted, refused by the service
\* (botocore ClientError), or failed before a response (a BotoCoreError such as
\* EndpointConnectionError, which is not a ClientError).  requests.post with
\* raise_for_status: accepted, or a requests.RequestException.
SnsOutcomes == {"sent", "ClientError", "BotoCoreError"}
SlackOutcomes == {"sent", "RequestException"}

\* _send_sns: except ClientError -- any other exception leaves the method
SnsRaises(outcome) == outcome = "BotoCoreError"

\* if self._sns_topic_arn: self._send_sns(...)
SnsChoices(emitted) == IF emitted /\ "sns" \in sinks THEN SnsOutcomes ELSE {"none"}

\* if self._slack_webhook_url: self._send_slack(...), reached when _send_sns returned
SlackChoices(emitted, sns) ==
    IF emitted /\ "slack" \in sinks /\ ~SnsRaises(sns) THEN SlackOutcomes ELSE {"none"}

NoDelivery == [op |-> "none", emitted |-> FALSE, attempts |-> <<>>, raised |-> FALSE]

\* What a check did with the sinks: the publishes attempted, in order, and
\* whether an exception left the check instead of its return value
Delivered(op, emitted, sns, slack) ==
    [op |-> op, emitted |-> emitted,
     attempts |-> (IF sns = "none" THEN <<>> ELSE << <<"sns", sns>> >>) \o
                  (IF slack = "none" THEN <<>> ELSE << <<"slack", slack>> >>),
     raised |-> SnsRaises(sns)]

\* call.ret is the value the check computed; notify.raised tells whether the
\* check returned it or an exception of a sink left the check
CheckFast(b, p, i) ==
    LET r == CheckFastResult(last_alert_time, pending_detail, b, p, i, now) IN
    \E sns \in SnsChoices(r.emit # "none") : \E slack \in SlackChoices(r.emit # "none", sns) :
    /\ last_alert_time' = r.last_alert_time
    /\ pending_detail' = r.pending_detail
    /\ call' = CallRecord("check_fast", b, p, i, r)
    /\ mon' = MonAfter("check_fast", SeesBreach(b, p, i), r.emit)
    /\ notify' = Delivered("check_fast", r.emit # "none", sns, slack)
    /\ UNCHANGED <<now, sinks, hostVars, cacheVars, coordVars, vxlanVars, mirrorVars>>

CheckDetail(b, p, i) ==
    LET r == CheckDetailResult(last_alert_time, pending_detail, b, p, i, now) IN
    \E sns \in SnsChoices(r.emit # "none") : \E slack \in SlackChoices(r.emit # "none", sns) :
    /\ last_alert_time' = r.last_alert_time
    /\ pending_detail' = r.pending_detail
    /\ call' = CallRecord("check_detail", b, p, i, r)
    /\ mon' = MonAfter("check_detail", SeesBreach(b, p, i), r.emit)
    /\ notify' = Delivered("check_detail", r.emit # "none", sns, slack)
    /\ UNCHANGED <<now, sinks, hostVars, cacheVars, coordVars, vxlanVars, mirrorVars>>

Tick ==
    /\ now < MaxNow
    /\ now' = now + 1
    /\ UNCHANGED <<globalVars, hostVars, cacheVars, coordVars, vxlanVars, mirrorVars>>

----------------------------------------------------------------------------
\* Per-host tier: check_host

\* A merge in which the destination also wins on equal byte counts
MergeDirectionsDstOnTie(src_agg, dst_agg) ==
    [ip \in DOMAIN src_agg \cup DOMAIN dst_agg |->
        IF ip \notin DOMAIN dst_agg
        THEN <<src_agg[ip][1], src_agg[ip][2], "source">>
        ELSE IF ip \notin DOMAIN src_agg \/ dst_agg[ip][2] >= src_agg[ip][2]
        THEN <<dst_agg[ip][1], dst_agg[ip][2], "destination">>
        ELSE <<src_agg[ip][1], src_agg[ip][2], "source">>]

\* all_ips: per address the direction with the larger byte count
MergeDirections(src_agg, dst_agg) ==
    [ip \in DOMAIN src_agg \cup DOMAIN dst_agg |->
        IF ip \notin DOMAIN dst_agg
        THEN <<src_agg[ip][1], src_agg[ip][2], "source">>
        ELSE IF ip \notin DOMAIN src_agg \/ dst_agg[ip][2] > src_agg[ip][2]
        THEN <<dst_agg[ip][1], dst_agg[ip][2], "destination">>
        ELSE <<src_agg[ip][1], src_agg[ip][2], "source">>]

\* The keys of a dict in the order the loop visits them.  The insertion order of
\* the Python dict is replaced by one fixed order: each key is visited once and
\* reads only its own entries.
RECURSIVE KeyOrder(_)
KeyOrder(S) ==
    IF S = {} THEN <<>>
    ELSE LET k == CHOOSE x \in S : TRUE IN <<k>> \o KeyOrder(S \ {k})

\* A breach test that looks at the byte rate only
HostBreachedBpsOnly(pkts, byt, interval_sec, thr_bps, thr_pps) ==
    thr_bps > 0 /\ byt * 8 > thr_bps * interval_sec

\* A breach test that does not require a threshold to be positive
HostBreachedAnyThreshold(pkts, byt, interval_sec, thr_bps, thr_pps) ==
    \/ byt * 8 > thr_bps * interval_sec
    \/ pkts > thr_pps * interval_sec

HostBreached(pkts, byt, interval_sec, thr_bps, thr_pps) ==
    \/ thr_bps > 0 /\ byt * 8 > thr_bps * interval_sec
    \/ thr_pps > 0 /\ pkts > thr_pps * interval_sec

RECURSIVE MaxOver(_, _)
MaxOver(f, S) ==
    IF S = {} THEN 0
    ELSE LET k == CHOOSE x \in S : TRUE
             m == MaxOver(f, S \ {k})
         IN  IF f[k] > m THEN f[k] ELSE m

\* One cooldown shared by all hosts: the latest host alert of any address
HostLastShared(cooldowns, ip) == MaxOver(cooldowns, DOMAIN cooldowns)

\* self._host_cooldowns.get(ip, 0)
HostLast(cooldowns, ip) == IF ip \in DOMAIN cooldowns THEN cooldowns[ip] ELSE 0

\* self._host_cooldowns[ip] = now
HostStamp(cooldowns, ip, t) ==
    [k \in DOMAIN cooldowns \cup {ip} |-> IF k = ip THEN t ELSE cooldowns[k]]

RECURSIVE HostLoop(_, _, _, _, _, _, _, _)
HostLoop(keys, all_ips, cooldowns, alerted, interval_sec, t, thr_bps, thr_pps) ==
    IF keys = <<>> THEN [host_cooldowns |-> cooldowns, alerted |-> alerted]
    ELSE LET ip == Head(keys)
             e == all_ips[ip]
         IN  IF ~HostBreached(e[1], e[2], interval_sec, thr_bps, thr_pps)
             THEN HostLoop(Tail(keys), all_ips, cooldowns, alerted, interval_sec, t,
                           thr_bps, thr_pps)
             ELSE IF ~CooldownElapsed(t, HostLast(cooldowns, ip))
             THEN HostLoop(Tail(keys), all_ips, cooldowns, alerted, interval_sec, t,
                           thr_bps, thr_pps)
             ELSE HostLoop(Tail(keys), all_ips, HostStamp(cooldowns, ip, t),
                           Append(alerted, <<ip, e[3]>>), interval_sec, t,
                           thr_bps, thr_pps)

\* check_host that also honours the cooldown of the global tier
CheckHostResultGlobalCooldown(cooldowns, src_agg, dst_agg, interval_sec, t, thr_bps, thr_pps) ==
    IF interval_sec <= 0 THEN [host_cooldowns |-> cooldowns, alerted |-> <<>>]
    ELSE IF thr_bps <= 0 /\ thr_pps <= 0
    THEN [host_cooldowns |-> cooldowns, alerted |-> <<>>]
    ELSE IF ~CooldownElapsed(t, last_alert_time)
    THEN [host_cooldowns |-> cooldowns, alerted |-> <<>>]
    ELSE LET all_ips == MergeDirections(src_agg, dst_agg)
         IN  HostLoop(KeyOrder(DOMAIN all_ips), all_ips, cooldowns, <<>>,
                      interval_sec, t, thr_bps, thr_pps)

\* The result of check_host: the new cooldown map and, in order, the [HOST]
\* alerts emitted, each an address with its direction label.
CheckHostResult(cooldowns, src_agg, dst_agg, interval_sec, t, thr_bps, thr_pps) ==
    IF interval_sec <= 0 THEN [host_cooldowns |-> cooldowns, alerted |-> <<>>]
    ELSE IF thr_bps <= 0 /\ thr_pps <= 0
    THEN [host_cooldowns |-> cooldowns, alerted |-> <<>>]
    ELSE LET all_ips == MergeDirections(src_agg, dst_agg)
         IN  HostLoop(KeyOrder(DOMAIN all_ips), all_ips, cooldowns, <<>>,
                      interval_sec, t, thr_bps, thr_pps)

NoHostCall ==
    [op |-> "none", all_ips |-> EmptyDict, interval_sec |-> 0, t |-> 0,
     pre_cooldowns |-> EmptyDict, alerted |-> <<>>]

\* The cooldown map when the loop was left at its n-th alert
RECURSIVE StampedUpTo(_, _, _, _)
StampedUpTo(cooldowns, alerted, n, t) ==
    IF n = 0 THEN cooldowns
    ELSE HostStamp(StampedUpTo(cooldowns, alerted, n - 1, t), alerted[n][1], t)

\* The alert of the loop whose publishing is drawn (the others are sent): an
\* exception of its sink leaves the loop, and check_host, at that alert
CheckHost(src_agg, dst_agg, interval_sec) ==
    \E r \in {CheckHostResult(host_cooldowns, src_agg, dst_agg, interval_sec, now,
                               host_threshold_bps, host_threshold_pps)} :
    LET emitted == r.alerted # <<>>
    IN  \E n \in (IF emitted /\ sinks # {} THEN 1..Len(r.alerted) ELSE {Len(r.alerted)}) :
        \E sns \in SnsChoices(emitted) : \E slack \in SlackChoices(emitted, sns) :
        LET done == IF SnsRaises(sns) THEN n ELSE Len(r.alerted) IN
        /\ host_cooldowns' = IF SnsRaises(sns)
                                THEN StampedUpTo(host_cooldowns, r.alerted, done, now)
                                ELSE r.host_cooldowns
        /\ host_call' = [op |-> "check_host",
                         all_ips |-> MergeDirections(src_agg, dst_agg),
                         interval_sec |-> interval_sec, t |-> now,
                         pre_cooldowns |-> host_cooldowns,
                         alerted |-> SubSeq(r.alerted, 1, done)]
        /\ notify' = Delivered("check_host", emitted, sns, slack)
        /\ UNCHANGED <<now, last_alert_time, pending_detail, call, mon, sinks,
                       host_threshold_bps, host_threshold_pps, report_call,
                       cacheVars, coordVars, vxlanVars, mirrorVars>>

DoCheckHost == \E s \in Aggs, d \in Aggs, i \in Intervals : CheckHost(s, d, i)

TickHost ==
    /\ now < ClockStart + MaxHostTicks
    /\ now' = now + 1
    /\ UNCHANGED <<globalVars, hostVars, cacheVars, coordVars, vxlanVars, mirrorVars>>

----------------------------------------------------------------------------
\* Metadata cache: IPEnricher

\* new_cache[ip] = {...} for the entries of a page: the last write wins
Update(d, page) ==
    [k \in DOMAIN d \cup DOMAIN page |-> IF k \in DOMAIN page THEN page[k] ELSE d[k]]

\* _refresh builds the map in place, in the published dict
CacheWhileBuildingInPlace(published, building) == building

\* self._cache while _refresh builds: new_cache is a fresh local dict
CacheWhileBuilding(published, building) == published

\* enrich_many looks each address up in the live self._cache
LookupSourceLive(snapshot, published) == published

\* enrich_many looks every address up in cache_snapshot
LookupSource(snapshot, published) == snapshot

\* {"ip": ip, **info} if info else {"ip": ip}
EnrichResult(d, ip) == IF ip \in DOMAIN d THEN <<ip, d[ip]>> ELSE <<ip>>

\* except (ClientError, Exception)
Caught(kind) == kind \in {"ClientError", "Exception"}

RefIdle == [pc |-> "idle", thread |-> "none", new_cache |-> EmptyDict, pages |-> 0,
            pre_cache |-> EmptyDict]
RefBegin(th) == [pc |-> "client", thread |-> th, new_cache |-> EmptyDict, pages |-> 0,
                 pre_cache |-> cache]

RdIdle == [pc |-> "idle", op |-> "none", ips |-> <<>>, snapshot |-> EmptyDict,
           results |-> <<>>, seen |-> {}]

NoRefresh == [outcome |-> "none", thread |-> "none", pre_cache |-> EmptyDict,
              partial |-> FALSE]

\* The thread that ran _refresh goes on after it returned (or dies of an
\* exception that _refresh let through)
Resume(th, crashed) ==
    /\ main_pc' = IF th = "main" THEN (IF crashed THEN "crashed" ELSE "spawn") ELSE main_pc
    /\ bg_pc' = IF th = "bg" THEN (IF crashed THEN "crashed" ELSE "loop") ELSE bg_pc

\* start(): self._running = True; self._refresh() begins
Start ==
    /\ main_pc = "new"
    /\ running' = TRUE
    /\ main_pc' = "starting"
    /\ ref' = RefBegin("main")
    /\ UNCHANGED <<otherVars, cache, lock, bg_pc, rd, ref_last, cycles>>

\* start(): the refresher thread is started after the blocking refresh
StartThread ==
    /\ main_pc = "spawn"
    /\ main_pc' = "ready"
    /\ bg_pc' = "loop"
    /\ UNCHANGED <<otherVars, cache, running, lock, ref, rd, ref_last, cycles>>

\* stop()
Stop ==
    /\ main_pc = "ready"
    /\ rd.pc = "idle"
    /\ running
    /\ running' = FALSE
    /\ UNCHANGED <<otherVars, cache, lock, main_pc, bg_pc, ref, rd, ref_last, cycles>>

\* _refresh_loop: while self._running
BgLoop ==
    /\ bg_pc = "loop"
    /\ bg_pc' = IF running THEN "sleeping" ELSE "exited"
    /\ UNCHANGED <<otherVars, cache, running, lock, main_pc, ref, rd, ref_last, cycles>>

\* _refresh_loop: after time.sleep(60), if self._running: self._refresh()
BgWake ==
    /\ bg_pc = "sleeping"
    /\ cycles < MaxCycles
    /\ IF running
       THEN /\ bg_pc' = "refreshing"
            /\ ref' = RefBegin("bg")
            /\ cycles' = cycles + 1
       ELSE /\ bg_pc' = "loop"
            /\ UNCHANGED <<otherVars, ref, cycles>>
    /\ UNCHANGED <<otherVars, cache, running, lock, main_pc, rd, ref_last>>

\* _refresh: the client and the paginator are created, new_cache = {}
RefreshClient ==
    /\ ref.pc = "client"
    /\ ref' = [ref EXCEPT !.pc = "paging"]
    /\ UNCHANGED <<otherVars, cache, running, lock, main_pc,
                 bg_pc, rd, ref_last, cycles>>

\* _refresh: one page of the pagination is added to new_cache
RefreshPage(page) ==
    /\ ref.pc = "paging"
    /\ ref.pages < MaxPages
    /\ ref' = [ref EXCEPT !.new_cache = Update(@, page), !.pages = @ + 1]
    /\ cache' = CacheWhileBuilding(cache, Update(ref.new_cache, page))
    /\ UNCHANGED <<otherVars, running, lock, main_pc, bg_pc, rd, ref_last, cycles>>

\* _refresh raises: at the client creation, at a page of the pagination, or while
\* building an entry after `partial` of the page was added
RefreshFail(kind, partial) ==
    /\ ref.pc \in {"client", "paging"}
    /\ ref.pc = "client" => partial = EmptyDict
    /\ cache' = IF ref.pc = "client" THEN cache
                ELSE CacheWhileBuilding(cache, Update(ref.new_cache, partial))
    /\ ref_last' = [outcome |-> "failed", thread |-> ref.thread,
                    pre_cache |-> ref.pre_cache,
                    partial |-> Update(ref.new_cache, partial) # EmptyDict]
    /\ ref' = RefIdle
    /\ Resume(ref.thread, ~Caught(kind))
    /\ UNCHANGED <<otherVars, running, lock, rd, cycles>>

\* _refresh: the pagination is exhausted; with self._lock
RefreshLock ==
    /\ ref.pc = "paging"
    /\ lock = "free"
    /\ lock' = ref.thread
    /\ ref' = [ref EXCEPT !.pc = "swap"]
    /\ UNCHANGED <<otherVars, cache, running, main_pc, bg_pc, rd, ref_last, cycles>>

\* _refresh: self._cache = new_cache, and the lock is released
RefreshSwap ==
    /\ ref.pc = "swap"
    /\ cache' = ref.new_cache
    /\ lock' = "free"
    /\ rd' = IF rd.pc = "idle" THEN rd ELSE [rd EXCEPT !.seen = @ \cup {ref.new_cache}]
    /\ ref_last' = [outcome |-> "published", thread |-> ref.thread,
                    pre_cache |-> ref.pre_cache, partial |-> FALSE]
    /\ ref' = RefIdle
    /\ Resume(ref.thread, FALSE)
    /\ UNCHANGED <<otherVars, running, cycles>>

\* enrich(ip) / enrich_many(ips) is called
EnrichCall(op, ips) ==
    /\ main_pc = "ready"
    /\ rd.pc = "idle"
    /\ rd' = [pc |-> "acquire", op |-> op, ips |-> ips, snapshot |-> EmptyDict,
              results |-> <<>>, seen |-> {cache}]
    /\ UNCHANGED <<otherVars, cache, running, lock, main_pc,
                 bg_pc, ref, ref_last, cycles>>

\* with self._lock
EnrichAcquire ==
    /\ rd.pc = "acquire"
    /\ lock = "free"
    /\ lock' = "reader"
    /\ rd' = [rd EXCEPT !.pc = "locked"]
    /\ UNCHANGED <<otherVars, cache, running, main_pc, bg_pc, ref, ref_last, cycles>>

\* enrich: info = self._cache.get(ip); enrich_many: cache_snapshot = dict(self._cache);
\* the lock is released
EnrichRead ==
    /\ rd.pc = "locked"
    /\ lock' = "free"
    /\ rd' = IF rd.op = "enrich"
             THEN [rd EXCEPT !.pc = "return",
                             !.results = <<EnrichResult(cache, rd.ips[1])>>]
             ELSE [rd EXCEPT !.pc = IF rd.ips = <<>> THEN "return" ELSE "lookup",
                             !.snapshot = cache]
    /\ UNCHANGED <<otherVars, cache, running, main_pc, bg_pc, ref, ref_last, cycles>>

\* enrich_many: one iteration of for ip in ips
EnrichLookup ==
    /\ rd.pc = "lookup"
    /\ Len(rd.results) < Len(rd.ips)
    /\ rd' = [rd EXCEPT !.results =
                 Append(@, EnrichResult(LookupSource(rd.snapshot, cache),
                                        rd.ips[Len(rd.results) + 1])),
                         !.pc = IF Len(rd.results) + 1 = Len(rd.ips)
                                THEN "return" ELSE "lookup"]
    /\ UNCHANGED <<otherVars, cache, running, lock, main_pc,
                 bg_pc, ref, ref_last, cycles>>

\* the call returns rd.results
EnrichReturn ==
    /\ rd.pc = "return"
    /\ rd' = RdIdle
    /\ UNCHANGED <<otherVars, cache, running, lock, main_pc,
                 bg_pc, ref, ref_last, cycles>>

DoRefreshPage == \E page \in Pages : RefreshPage(page)
DoRefreshFail == \E kind \in Failures, partial \in Pages : RefreshFail(kind, partial)
DoEnrich == \E ip \in IPs : EnrichCall("enrich", <<ip>>)
DoEnrichMany == \E ips \in Batches : EnrichCall("enrich_many", ips)

NextCache ==
    \/ Start \/ StartThread \/ Stop \/ BgLoop \/ BgWake
    \/ RefreshClient \/ DoRefreshPage \/ DoRefreshFail \/ RefreshLock \/ RefreshSwap
    \/ DoEnrich \/ DoEnrichMany \/ EnrichAcquire \/ EnrichRead \/ EnrichLookup
    \/ EnrichReturn


InitCache ==
    /\ cache = EmptyDict
    /\ running = FALSE
    /\ lock = "free"
    /\ main_pc = "new"
    /\ bg_pc = "unstarted"
    /\ ref = RefIdle
    /\ rd = RdIdle
    /\ ref_last = NoRefresh
    /\ cycles = 0

----------------------------------------------------------------------------
\* The capture workers and the coordinator (probe/multiproc_probe.py)
\*
\* Each worker is a process of its own; the run loop, stop() and the signal handler
\* all execute in the main thread of the coordinator process, the handler between
\* two steps of whatever that thread was doing.  Snapshots carry a number (the
\* order of their flush) so that the properties can follow them; the dicts that
\* merge them carry the set of numbers they were summed from.  What _run_loop and
\* _report pass to the alert engine and the cache is followed in the alert and
\* cache specifications; the coordinator reads nothing back from them, except that
\* an exception of theirs leaves _report (RunLoopRollover).

\* Times are counted in coordinator polls (COORDINATOR_POLL = 0.5 s)
COORDINATOR_POLL == 1
\* The report window in polls, scaled down (the program's 5.0 s is ten polls)
REPORT_INTERVAL == 2
\* stop(): time.sleep(0.5) and p.join(timeout=3)
StopSleep == 1
JoinTimeout == 6

\* multiprocessing.Queue() is created without maxsize: 0 means no limit
QueueMaxsize == 0

\* Bounds of the model
MaxSnaps == 2
MaxSignals == 1
\* The depth the specification suggests for a worker queue, scaled down
QueueDepth == 1

\* PROBE_WORKERS
Workers == {1, 2}
NumWorkers == Cardinality(Workers)

\* PROBE_SAMPLE_RATE values, as fractions
FullRate == <<1, 1>>
SampleRates == {FullRate, <<1, 2>>}

\* Flow keys (src_ip, dst_ip, proto, src_port, dst_port)
FlowA == <<"10.0.1.1", "10.0.1.2", 6, 1234, 80>>
FlowB == <<"10.0.1.2", "10.0.1.1", 17, 53, 1024>>
FlowKeys == {FlowA, FlowB}

\* What cap_flush returns for a capture cycle that saw traffic, key -> [packets,
\* bytes]: the kernel steers a tunnel to one worker, so each worker sees its own flows
\* and the counts differ from cycle to cycle (n numbers the non-empty flushes)
Captures(w, n) ==
    IF w = 1 THEN [k \in {FlowA} |-> <<n, 2 * n>>]
    ELSE [k \in FlowKeys |-> IF k = FlowA THEN <<2, 3>> ELSE <<n, 1>>]

\* dict.get(key, [0, 0])
Get(d, k) == IF k \in DOMAIN d THEN d[k] ELSE <<0, 0>>

\* for key, counters in src.items(): entry = dst[key]; entry[0] += ...; entry[1] += ...
MergeReplacing(dst, src) ==
    [k \in DOMAIN dst \cup DOMAIN src |-> IF k \in DOMAIN src THEN src[k] ELSE dst[k]]

MergeInto(dst, src) ==
    [k \in DOMAIN dst \cup DOMAIN src |->
        <<Get(dst, k)[1] + Get(src, k)[1], Get(dst, k)[2] + Get(src, k)[2]>>]

\* int(x * inv_rate) with inv_rate = 1.0 / rate
ScaleInt(x, rate) == (x * rate[2]) \div rate[1]

\* _worker_c: inv_rate = 1.0 / sample_rate if sample_rate < 1.0 else 1.0
WorkerInvRate(rate) == IF rate[1] < rate[2] THEN rate ELSE FullRate

\* Coordinator.__init__: _inv_rate = 1.0 / sample_rate if sample_rate > 0 else 1.0
CoordInvRate(rate) == IF rate[1] > 0 THEN rate ELSE FullRate

\* The flows dict a worker builds from the flush buffer
WorkerFlows(raw, rate) ==
    [k \in DOMAIN raw |->
        <<ScaleInt(raw[k][1], WorkerInvRate(rate)), ScaleInt(raw[k][2], WorkerInvRate(rate))>>]

\* _report: the counters as reported (scaled in place when inv != 1.0)
ReportFlows(flows, rate) ==
    [k \in DOMAIN flows |->
        <<ScaleInt(flows[k][1], CoordInvRate(rate)), ScaleInt(flows[k][2], CoordInvRate(rate))>>]

\* A drained or accumulated dict together with the snapshots it was summed from
NoFlows == [flows |-> EmptyDict, ids |-> {}]
NoSnap == [id |-> 0, flows |-> EmptyDict]

\* result_queue.put(flows, timeout=0.5) raises queue.Full
Full(q) == QueueMaxsize > 0 /\ Len(q) >= QueueMaxsize

\* _drain_queues over one queue: get_nowait until queue.Empty
RECURSIVE DrainOne(_, _)
DrainOne(q, merged) ==
    IF q = <<>> THEN merged
    ELSE DrainOne(Tail(q), [flows |-> MergeInto(merged.flows, Head(q).flows),
                            ids |-> merged.ids \cup {Head(q).id}])

\* _drain_queues: for q in self._queues, in the order given
RECURSIVE DrainIn(_, _, _)
DrainIn(order, qs, merged) ==
    IF order = <<>> THEN merged
    ELSE DrainIn(Tail(order), qs, DrainOne(qs[Head(order)], merged))

QueueOrder == [i \in 1..NumWorkers |-> i]
DrainQueues(qs) == DrainIn(QueueOrder, qs, NoFlows)

RECURSIVE IdsIn(_, _)
IdsIn(order, qs) ==
    IF order = <<>> THEN <<>>
    ELSE [i \in 1..Len(qs[Head(order)]) |-> qs[Head(order)][i].id] \o IdsIn(Tail(order), qs)

EmptyQueues == [w \in Workers |-> <<>>]

coordMain == <<cpc, fresh, accumulated, elapsed, raised, frames, signals, stop_runs,
               enricher_stops, reports, fast_check>>

\* cap_create: a context, or NULL and the worker returns
WorkerStart(w, ok) ==
    /\ wpc[w] = "start"
    /\ wpc' = [wpc EXCEPT ![w] = IF ok THEN "test" ELSE "exited"]
    /\ ctx' = [ctx EXCEPT ![w] = IF ok THEN "open" ELSE "none"]
    /\ UNCHANGED <<alertVars, sample_rate, stop_event, queues, wflows, queue_drops, captured,
                   coordMain, drain_order>>

\* finally: lib.cap_destroy(ctx)
WorkerExitCtxLeak(c) == c
WorkerExitCtx(c) == "destroyed"

\* while not stop_event.is_set()
WorkerTest(w) ==
    /\ wpc[w] = "test"
    /\ IF stop_event
       THEN /\ wpc' = [wpc EXCEPT ![w] = "exited"]
            /\ ctx' = [ctx EXCEPT ![w] = WorkerExitCtx(ctx[w])]
       ELSE /\ wpc' = [wpc EXCEPT ![w] = "capture"]
            /\ UNCHANGED ctx
    /\ UNCHANGED <<alertVars, sample_rate, stop_event, queues, wflows, queue_drops, captured,
                   coordMain, drain_order>>

\* cap_run, cap_flush and the loop that builds flows; count == 0: continue
WorkerCapture(w, raw) ==
    /\ wpc[w] = "capture"
    /\ IF raw = EmptyDict
       THEN /\ wpc' = [wpc EXCEPT ![w] = "test"]
            /\ UNCHANGED <<wflows, captured>>
       ELSE /\ Len(captured) < MaxSnaps
            /\ captured' = Append(captured, [worker |-> w, raw |-> raw])
            /\ wflows' = [wflows EXCEPT ![w] = [id |-> Len(captured) + 1,
                                               flows |-> WorkerFlows(raw, sample_rate)]]
            /\ wpc' = [wpc EXCEPT ![w] = "put"]
    /\ UNCHANGED <<alertVars, sample_rate, stop_event, queues, ctx, queue_drops,
                   coordMain, drain_order>>

\* result_queue.put(flows, timeout=0.5); except queue.Full: cumulative_queue_drops += 1
WorkerPut(w) ==
    /\ wpc[w] = "put"
    /\ IF Full(queues[w])
       THEN /\ queue_drops' = [queue_drops EXCEPT ![w] = @ + 1]
            /\ UNCHANGED queues
       ELSE /\ queues' = [queues EXCEPT ![w] = Append(@, wflows[w])]
            /\ UNCHANGED queue_drops
    /\ wflows' = [wflows EXCEPT ![w] = NoSnap]
    /\ wpc' = [wpc EXCEPT ![w] = "test"]
    /\ UNCHANGED <<alertVars, sample_rate, stop_event, ctx, captured, coordMain, drain_order>>

\* What the main thread and the stop() activations own
workerVars == <<wpc, ctx, wflows, queue_drops, captured>>

Min(a, b) == IF a < b THEN a ELSE b
\* time.monotonic() - last_report after d more polls; a window is closed at the
\* poll that reaches REPORT_INTERVAL, so the difference is kept up to that value
Later(e, d) == Min(e + d, REPORT_INTERVAL)

\* for key, counters in fresh.items(): entry = accumulated[key]; entry += counters
AccumulateFresh(acc, fr) == fr

Accumulate(acc, fr) ==
    [flows |-> MergeInto(acc.flows, fr.flows), ids |-> acc.ids \cup fr.ids]

\* accumulated = defaultdict(lambda: [0, 0]) after a report
WindowResetKeeps(acc) == acc
WindowReset(acc) == NoFlows

\* _report(flows): nothing for an empty dict, else one report of the scaled counters
Emit(flows, by) ==
    IF flows.flows = EmptyDict THEN reports
    ELSE Append(reports, [flows |-> ReportFlows(flows.flows, sample_rate),
                          ids |-> flows.ids, by |-> by])

IdleFrame == [pc |-> "none", merged |-> NoFlows, idx |-> 0]
Handling == frames["sig"].pc # "none"
\* The main thread runs its own code only while no signal handler is executing
MainRuns == ~Handling /\ frames["main"].pc = "none"
Active(f) == frames[f].pc # "none" /\ (f = "main" => ~Handling)

\* while not self._stop_event.is_set()
RunLoopTest ==
    /\ MainRuns /\ cpc = "loop"
    /\ cpc' = IF stop_event THEN "finally" ELSE "sleep"
    /\ UNCHANGED <<alertVars, fast_check, sample_rate, stop_event, queues, workerVars, fresh, accumulated,
                   elapsed, raised, frames, signals, stop_runs, enricher_stops, reports,
                   drain_order>>

\* time.sleep(COORDINATOR_POLL); fresh = self._drain_queues()
RunLoopDrain ==
    /\ MainRuns /\ cpc = "sleep"
    /\ fresh' = DrainQueues(queues)
    /\ queues' = EmptyQueues
    /\ drain_order' = drain_order \o IdsIn(QueueOrder, queues)
    /\ elapsed' = Later(elapsed, COORDINATOR_POLL)
    /\ cpc' = "merge"
    /\ UNCHANGED <<alertVars, fast_check, sample_rate, stop_event, workerVars, accumulated, raised, frames,
                   signals, stop_runs, enricher_stops, reports>>

\* sum(v[0] ...), sum(v[1] ...) over the values of a flow dict
RECURSIVE SumOver(_, _)
SumOver(d, ks) ==
    IF ks = {} THEN <<0, 0>>
    ELSE LET k == CHOOSE x \in ks : TRUE
             rest == SumOver(d, ks \ {k})
         IN  <<d[k][1] + rest[1], d[k][2] + rest[2]>>
Totals(d) == SumOver(d, DOMAIN d)

NoFastCheck ==
    [state |-> "none", drained |-> {}, total_bytes |-> 0, total_packets |-> 0,
     interval_sec |-> 0]

\* A quick check that totals what the poll drained instead of the accumulator
FastCheckOfFresh(fr, acc, interval) ==
    IF fr.flows # EmptyDict /\ interval > 0
    THEN [state |-> "called", drained |-> fr.ids, total_bytes |-> Totals(fr.flows)[2],
          total_packets |-> Totals(fr.flows)[1], interval_sec |-> interval]
    ELSE [NoFastCheck EXCEPT !.state = "skipped", !.drained = fr.ids]

\* if fresh: ... if accum_interval > 0: self._alerter.check_fast(totals of
\* accumulated, accum_interval); acc is the accumulator after the merge
FastCheck(fr, acc, interval) ==
    IF fr.flows # EmptyDict /\ interval > 0
    THEN [state |-> "called", drained |-> fr.ids, total_bytes |-> Totals(acc.flows)[2],
          total_packets |-> Totals(acc.flows)[1], interval_sec |-> interval]
    ELSE [NoFastCheck EXCEPT !.state = "skipped", !.drained = fr.ids]

\* if fresh: merge it into accumulated and make the quick check on the totals
RunLoopMerge ==
    /\ MainRuns /\ cpc = "merge"
    /\ accumulated' = Accumulate(accumulated, fresh)
    /\ fast_check' = FastCheck(fresh, accumulated', elapsed)
    /\ fresh' = NoFlows
    /\ cpc' = "rollover"
    /\ UNCHANGED <<alertVars, sample_rate, stop_event, queues, workerVars, elapsed, raised,
                   frames, signals, stop_runs, enricher_stops, reports, drain_order>>

\* if now - last_report >= REPORT_INTERVAL: report, new accumulator, last_report = now.
\* fails: an exception of a notification sink leaves _report after the report is logged
RunLoopRollover(fails) ==
    /\ MainRuns /\ cpc = "rollover"
    /\ IF elapsed >= REPORT_INTERVAL
       THEN /\ reports' = Emit(accumulated, "loop")
            /\ IF fails /\ accumulated # NoFlows
               THEN /\ raised' = TRUE
                    /\ cpc' = "finally"
                    /\ UNCHANGED <<accumulated, elapsed>>
               ELSE /\ accumulated' = WindowReset(accumulated)
                    /\ elapsed' = 0
                    /\ cpc' = "loop"
                    /\ UNCHANGED raised
       ELSE /\ ~fails
            /\ cpc' = "loop"
            /\ UNCHANGED <<reports, accumulated, elapsed, raised>>
    /\ fast_check' = NoFastCheck
    /\ UNCHANGED <<alertVars, sample_rate, stop_event, queues, workerVars, fresh, frames,
                   signals, stop_runs, enricher_stops, drain_order>>

\* Where the main thread goes when the stop() it called returns: from the finally
\* of start() to main's except (an exception is propagating) or to the end
After(pc) == IF pc = "finally" /\ raised THEN "except" ELSE "done"

\* self.stop() in the finally of start(), coordinator.stop() in main's except:
\* if self._stop_event.is_set(): return
MainCallStop ==
    /\ MainRuns /\ cpc \in {"finally", "except"}
    /\ IF stop_event
       THEN /\ cpc' = After(cpc)
            /\ UNCHANGED frames
       ELSE /\ frames' = [frames EXCEPT !["main"].pc = "set"]
            /\ UNCHANGED cpc
    /\ UNCHANGED <<alertVars, fast_check, sample_rate, stop_event, queues, workerVars, fresh, accumulated,
                   elapsed, raised, signals, stop_runs, enricher_stops, reports, drain_order>>

\* handle_signal: SIGTERM or SIGINT interrupts the main thread between two of its
\* steps and calls coordinator.stop(): if self._stop_event.is_set(): return
Signal ==
    /\ ~Handling /\ cpc # "done"
    /\ signals < MaxSignals
    /\ signals' = signals + 1
    /\ frames' = IF stop_event THEN frames ELSE [frames EXCEPT !["sig"].pc = "set"]
    /\ UNCHANGED <<alertVars, fast_check, sample_rate, stop_event, queues, workerVars, cpc, fresh,
                   accumulated, elapsed, raised, stop_runs, enricher_stops, reports,
                   drain_order>>

\* self._stop_event.set()
StopSet(f) ==
    /\ Active(f) /\ frames[f].pc = "set"
    /\ stop_event' = TRUE
    /\ stop_runs' = stop_runs + 1
    /\ frames' = [frames EXCEPT ![f].pc = "sleep"]
    /\ UNCHANGED <<alertVars, fast_check, sample_rate, queues, workerVars, cpc, fresh, accumulated,
                   elapsed, raised, signals, enricher_stops, reports, drain_order>>

\* time.sleep(0.5); merged = self._drain_queues()
StopDrain(f) ==
    /\ Active(f) /\ frames[f].pc = "sleep"
    /\ frames' = [frames EXCEPT ![f] = [pc |-> "join", merged |-> DrainQueues(queues),
                                        idx |-> 1]]
    /\ queues' = EmptyQueues
    /\ drain_order' = drain_order \o IdsIn(QueueOrder, queues)
    /\ elapsed' = Later(elapsed, StopSleep)
    /\ UNCHANGED <<alertVars, fast_check, sample_rate, stop_event, workerVars, cpc, fresh, accumulated,
                   raised, signals, stop_runs, enricher_stops, reports>>

\* p.join(timeout=3) returned with the process alive: p.terminate()
JoinTimeoutLeavesAlive(p) == p
JoinTimedOut(p) == "terminated"

Dead(w) == wpc[w] \in {"exited", "terminated"}

\* for p in self._workers: p.join(timeout=3); if p.is_alive(): p.terminate()
StopJoin(f) ==
    /\ Active(f) /\ frames[f].pc = "join"
    /\ LET w == frames[f].idx IN
        /\ IF Dead(w) \/ wpc[w] = "unlaunched"
           THEN UNCHANGED <<wpc, elapsed>>
           ELSE /\ wpc' = [wpc EXCEPT ![w] = JoinTimedOut(wpc[w])]
                /\ elapsed' = Later(elapsed, JoinTimeout)
        /\ frames' = [frames EXCEPT ![f].idx = w + 1,
                                    ![f].pc = IF w = NumWorkers THEN "final" ELSE "join"]
    /\ UNCHANGED <<alertVars, fast_check, sample_rate, stop_event, queues, ctx, wflows, queue_drops,
                   captured, cpc, fresh, accumulated, raised, signals, stop_runs,
                   enricher_stops, reports, drain_order>>

\* final = self._drain_queues(); merge into merged; if merged: self._report(merged);
\* self._enricher.stop()
StopFinal(f) ==
    /\ Active(f) /\ frames[f].pc = "final"
    /\ reports' = Emit(Accumulate(frames[f].merged, DrainQueues(queues)), "stop")
    /\ queues' = EmptyQueues
    /\ drain_order' = drain_order \o IdsIn(QueueOrder, queues)
    /\ enricher_stops' = enricher_stops + 1
    /\ frames' = [frames EXCEPT ![f] = IdleFrame]
    /\ cpc' = IF f = "main" THEN After(cpc) ELSE cpc
    /\ UNCHANGED <<alertVars, fast_check, sample_rate, stop_event, workerVars, fresh, accumulated,
                   elapsed, raised, signals, stop_runs>>

Frames == {"main", "sig"}

\* start(): self._enricher.start() -- the main thread inside IPEnricher.start(),
\* its blocking refresh and the start of the refresher thread
StartEnricher ==
    /\ MainRuns /\ cpc = "enricher"
    /\ (Start \/ RefreshClient \/ DoRefreshPage \/ DoRefreshFail \/ RefreshLock \/ RefreshSwap
          \/ StartThread)

\* start() goes on when self._enricher.start() has returned
EnricherReturnedAnytime == TRUE
EnricherReturned == main_pc = "ready"

\* start(): sys.exit(1) without fast_recv.so; else the queues are created and
\* the worker processes started
LaunchWorkers(found) ==
    /\ MainRuns /\ cpc = "enricher"
    /\ EnricherReturned
    /\ IF found
       THEN wpc' = [w \in Workers |-> "start"] /\ cpc' = "loop"
       ELSE cpc' = "done" /\ UNCHANGED wpc
    /\ UNCHANGED <<alertVars, fast_check, sample_rate, stop_event, queues, ctx, wflows,
                   queue_drops, captured, fresh, accumulated, elapsed, raised, frames,
                   signals, stop_runs, enricher_stops, reports, drain_order>>

DoLaunchWorkers == \E found \in BOOLEAN : LaunchWorkers(found)

DoWorkerStart == \E w \in Workers, ok \in BOOLEAN : WorkerStart(w, ok)
DoWorkerTest == \E w \in Workers : WorkerTest(w)
DoWorkerCapture ==
    \E w \in Workers : \E raw \in {Captures(w, Len(captured) + 1), EmptyDict} :
        WorkerCapture(w, raw)
DoWorkerPut == \E w \in Workers : WorkerPut(w)
DoRunLoopRollover == \E fails \in BOOLEAN : RunLoopRollover(fails)
DoStopSet == \E f \in Frames : StopSet(f)
DoStopDrain == \E f \in Frames : StopDrain(f)
DoStopJoin == \E f \in Frames : StopJoin(f)
DoStopFinal == \E f \in Frames : StopFinal(f)

NextProbe ==
    \/ DoWorkerStart \/ DoWorkerTest \/ DoWorkerCapture \/ DoWorkerPut
    \/ RunLoopTest \/ RunLoopDrain \/ RunLoopMerge \/ DoRunLoopRollover
    \/ MainCallStop \/ Signal
    \/ DoStopSet \/ DoStopDrain \/ DoStopJoin \/ DoStopFinal

\* Coordinator.start() has created the queues and started the workers
InitCoord ==
    /\ stop_event = FALSE
    /\ queues = EmptyQueues
    /\ wpc = [w \in Workers |-> "start"]
    /\ ctx = [w \in Workers |-> "none"]
    /\ wflows = [w \in Workers |-> NoSnap]
    /\ queue_drops = [w \in Workers |-> 0]
    /\ captured = <<>>
    /\ cpc = "loop"
    /\ fresh = NoFlows
    /\ fast_check = NoFastCheck
    /\ accumulated = NoFlows
    /\ elapsed = 0
    /\ raised = FALSE
    /\ frames = [f \in Frames |-> IdleFrame]
    /\ signals = 0
    /\ stop_runs = 0
    /\ enricher_stops = 0
    /\ reports = <<>>
    /\ drain_order = <<>>

----------------------------------------------------------------------------
\* The VXLAN datagram parser (parse_vxlan_packet; the same text in
\* multiproc_probe.py and vxlan_probe.py).  A datagram is its sequence of
\* bytes; data[i + 1] is the byte at offset i.

ETHERTYPE_IPV4 == 2048
PROTO_TCP == 6
PROTO_UDP == 17
VXLAN_HDR_LEN == 8
ETH_HDR_LEN == 14
IP_HDR_MIN_LEN == 20

\* Longest datagram of the model
MaxDatagram == 50

AddrA == <<10, 0, 1, 1>>
AddrB == <<10, 0, 2, 2>>

\* What a sender puts on the wire: the header fields and where the datagram ends
Packets ==
    [len : 0..MaxDatagram,
     ethertype : {ETHERTYPE_IPV4, 34525},
     version_ihl : {67, 69, 70, 79},
     total_length : {20, 60, 1500},
     protocol : {1, PROTO_TCP, PROTO_UDP, 255},
     ports : {<<12345, 80>>, <<53, 65535>>}]

IdlePacket ==
    [len |-> 0, ethertype |-> ETHERTYPE_IPV4, version_ihl |-> 69, total_length |-> 20,
     protocol |-> 1, ports |-> <<12345, 80>>]

\* The byte at offset p of the encapsulated frame: VXLAN header, Ethernet
\* header, IPv4 header, then the first four bytes of the transport header at the
\* offset the IHL nibble announces
WireByte(f, p) ==
    LET t == VXLAN_HDR_LEN + ETH_HDR_LEN + (f.version_ihl % 16) * 4 IN
    CASE p = 0 -> 8
      [] p = 20 -> f.ethertype \div 256
      [] p = 21 -> f.ethertype % 256
      [] p = 22 -> f.version_ihl
      [] p = 24 -> f.total_length \div 256
      [] p = 25 -> f.total_length % 256
      [] p = 30 -> 64
      [] p = 31 -> f.protocol
      [] p \in 34..37 -> AddrA[p - 33]
      [] p \in 38..41 -> AddrB[p - 37]
      [] p >= 42 /\ p = t -> f.ports[1] \div 256
      [] p >= 42 /\ p = t + 1 -> f.ports[1] % 256
      [] p >= 42 /\ p = t + 2 -> f.ports[2] \div 256
      [] p >= 42 /\ p = t + 3 -> f.ports[2] % 256
      [] OTHER -> 0

Wire(f) == [i \in 1..f.len |-> WireByte(f, i - 1)]

None == [kind |-> "none"]
Raised == [kind |-> "raise"]

\* struct.unpack_from and indexing raise when the bytes are not there
Readable(d, offset, n) == offset + n <= Len(d)
Unpack16(d, offset) == d[offset + 1] * 256 + d[offset + 2]
inet_ntoa(d, offset) == <<d[offset + 1], d[offset + 2], d[offset + 3], d[offset + 4]>>

\* Ports of the returned key
TransportPortsAnyProtocol(d, protocol, transport_offset) ==
    IF Len(d) >= transport_offset + 4
    THEN <<d[transport_offset + 1] * 256 + d[transport_offset + 2],
           d[transport_offset + 3] * 256 + d[transport_offset + 4]>>
    ELSE <<0, 0>>
TransportPorts(d, protocol, transport_offset) ==
    IF protocol \in {PROTO_TCP, PROTO_UDP} /\ Len(d) >= transport_offset + 4
    THEN <<Unpack16(d, transport_offset), Unpack16(d, transport_offset + 2)>>
    ELSE <<0, 0>>

\* Length reported for the packet
PacketLength(d, offset) == Unpack16(d, offset + 2)

\* Whether the header length is refused
BadIhlAnyLength(ihl, remaining) == ihl < IP_HDR_MIN_LEN
BadIhl(ihl, remaining) == ihl < IP_HDR_MIN_LEN \/ remaining < ihl

\* The inner IPv4 header, at offset with remaining bytes left
ParseInner(d, offset, remaining) ==
    IF remaining < IP_HDR_MIN_LEN THEN None
    ELSE IF ~Readable(d, offset, 1) THEN Raised
    ELSE LET ihl == (d[offset + 1] % 16) * 4 IN
         IF BadIhl(ihl, remaining) THEN None
         ELSE IF ~(Readable(d, offset + 2, 2) /\ Readable(d, offset + 9, 1)
                    /\ Readable(d, offset + 12, 4) /\ Readable(d, offset + 16, 4))
              THEN Raised
         ELSE LET protocol == d[offset + 9 + 1]
                  ports == TransportPorts(d, protocol, offset + ihl)
              IN  [kind |-> "flow",
                   key |-> <<inet_ntoa(d, offset + 12), inet_ntoa(d, offset + 16),
                             protocol, ports[1], ports[2]>>,
                   len |-> PacketLength(d, offset)]

parse_vxlan_packet(d) ==
    IF Len(d) < VXLAN_HDR_LEN THEN None
    ELSE IF Len(d) - VXLAN_HDR_LEN < ETH_HDR_LEN THEN None
    ELSE IF ~Readable(d, VXLAN_HDR_LEN + 12, 2) THEN Raised
    ELSE IF Unpack16(d, VXLAN_HDR_LEN + 12) # ETHERTYPE_IPV4 THEN None
    ELSE ParseInner(d, VXLAN_HDR_LEN + ETH_HDR_LEN, Len(d) - VXLAN_HDR_LEN - ETH_HDR_LEN)

NotParsed == [kind |-> "pending"]

\* result = parse(data) in the receive loop
Parse ==
    /\ result = NotParsed
    /\ result' = parse_vxlan_packet(data)
    /\ UNCHANGED <<sent, data, flowVars, now, globalVars, hostVars, cacheVars, coordVars, mirrorVars>>

InitParseIdle ==
    /\ sent = IdlePacket
    /\ data = Wire(IdlePacket)
    /\ result = None

----------------------------------------------------------------------------
\* The single-process probe's flow table (vxlan_probe.py, FlowAggregator):
\* the receive thread calls record(), the reporter thread calls flush() and
\* then reads the table it got.  A table object is a function from the keys
\* it holds to <<packets, bytes>>; record() works on the object it looked up.

\* Capacity the flow table is specified to have
C_TABLE == 1

\* Bounds of the model
MaxRecords == 3
MaxFlushes == 2

AggKeys == 1..(C_TABLE + 1)

Store(t, k, v) == [x \in (DOMAIN t) \cup {k} |-> IF x = k THEN v ELSE t[x]]

\* defaultdict: self._flows[key] creates the zero entry when the key is new
LookupDefault(t, k) == IF k \in DOMAIN t THEN t ELSE Store(t, k, <<0, 0>>)

\* threading.Lock.acquire
AcquirableAlways(l) == TRUE
Acquirable(l) == l = "free"

RecordCall(k, n) ==
    /\ rcv.pc = "idle"
    /\ recorded.calls < MaxRecords
    /\ rcv' = [pc |-> "lock", key |-> k, len |-> n, tab |-> rcv.tab]
    /\ recorded' = [recorded EXCEPT !.calls = @ + 1]
    /\ UNCHANGED <<agg_flows, tables, agg_lock, rep, flushed>>
    /\ UNCHANGED <<parseVars, now, globalVars, hostVars, cacheVars, coordVars, mirrorVars>>

RecordAcquire ==
    /\ rcv.pc = "lock"
    /\ Acquirable(agg_lock)
    /\ agg_lock' = "rcv"
    /\ rcv' = [rcv EXCEPT !.pc = "entry"]
    /\ UNCHANGED <<agg_flows, tables, rep, flushed, recorded>>
    /\ UNCHANGED <<parseVars, now, globalVars, hostVars, cacheVars, coordVars, mirrorVars>>

\* entry = self._flows[key]
RecordEntry ==
    /\ rcv.pc = "entry"
    /\ tables' = [tables EXCEPT ![agg_flows] = LookupDefault(@, rcv.key)]
    /\ rcv' = [rcv EXCEPT !.pc = "packets", !.tab = agg_flows]
    /\ UNCHANGED <<agg_flows, agg_lock, rep, flushed, recorded>>
    /\ UNCHANGED <<parseVars, now, globalVars, hostVars, cacheVars, coordVars, mirrorVars>>

\* entry["packets"] += 1
RecordPackets ==
    /\ rcv.pc = "packets"
    /\ tables' = [tables EXCEPT ![rcv.tab][rcv.key][1] = @ + 1]
    /\ rcv' = [rcv EXCEPT !.pc = "bytes"]
    /\ UNCHANGED <<agg_flows, agg_lock, rep, flushed, recorded>>
    /\ UNCHANGED <<parseVars, now, globalVars, hostVars, cacheVars, coordVars, mirrorVars>>

\* entry["bytes"] += pkt_len
RecordBytes ==
    /\ rcv.pc = "bytes"
    /\ tables' = [tables EXCEPT ![rcv.tab][rcv.key][2] = @ + rcv.len]
    /\ rcv' = [rcv EXCEPT !.pc = "unlock"]
    /\ UNCHANGED <<agg_flows, agg_lock, rep, flushed, recorded>>
    /\ UNCHANGED <<parseVars, now, globalVars, hostVars, cacheVars, coordVars, mirrorVars>>

RecordRelease ==
    /\ rcv.pc = "unlock"
    /\ agg_lock' = "free"
    /\ rcv' = [rcv EXCEPT !.pc = "idle"]
    /\ recorded' = [recorded EXCEPT !.done[rcv.key] =
                        <<@[1] + 1, @[2] + rcv.len>>]
    /\ UNCHANGED <<agg_flows, tables, rep, flushed>>
    /\ UNCHANGED <<parseVars, now, globalVars, hostVars, cacheVars, coordVars, mirrorVars>>

FlushCall ==
    /\ rep.pc = "idle"
    /\ Len(tables) <= MaxFlushes
    /\ rep' = [rep EXCEPT !.pc = "lock"]
    /\ UNCHANGED <<agg_flows, tables, agg_lock, rcv, flushed, recorded>>
    /\ UNCHANGED <<parseVars, now, globalVars, hostVars, cacheVars, coordVars, mirrorVars>>

FlushAcquire ==
    /\ rep.pc = "lock"
    /\ Acquirable(agg_lock)
    /\ agg_lock' = "rep"
    /\ rep' = [rep EXCEPT !.pc = "swap"]
    /\ UNCHANGED <<agg_flows, tables, rcv, flushed, recorded>>
    /\ UNCHANGED <<parseVars, now, globalVars, hostVars, cacheVars, coordVars, mirrorVars>>

\* old = self._flows; self._flows = defaultdict(...)
FlushSwap ==
    /\ rep.pc = "swap"
    /\ tables' = Append(tables, <<>>)
    /\ agg_flows' = Len(tables) + 1
    /\ rep' = [pc |-> "unlock", old |-> agg_flows]
    /\ UNCHANGED <<agg_lock, rcv, flushed, recorded>>
    /\ UNCHANGED <<parseVars, now, globalVars, hostVars, cacheVars, coordVars, mirrorVars>>

FlushRelease ==
    /\ rep.pc = "unlock"
    /\ agg_lock' = "free"
    /\ rep' = [rep EXCEPT !.pc = "return"]
    /\ UNCHANGED <<agg_flows, tables, rcv, flushed, recorded>>
    /\ UNCHANGED <<parseVars, now, globalVars, hostVars, cacheVars, coordVars, mirrorVars>>

\* return old; the caller (Reporter._report) returns on an empty table, else it
\* reads the counters of the table it got and logs the report
FlushReturn ==
    /\ rep.pc = "return"
    /\ flushed' = Append(flushed, tables[rep.old])
    /\ rep' = [rep EXCEPT !.pc = IF tables[rep.old] = <<>> THEN "idle" ELSE "alert"]
    /\ UNCHANGED <<agg_flows, tables, agg_lock, rcv, recorded>>
    /\ UNCHANGED <<parseVars, now, globalVars, hostVars, cacheVars, coordVars, mirrorVars>>

\* The methods of FlowAlerter
AlerterMethods == {"check_fast", "check_detail", "check_host"}

\* Reporter._report: self._alerter.check(...) -- the attribute lookup raises
\* AttributeError for a name FlowAlerter does not define; nothing in _report or
\* _loop catches it, and the reporter thread ends
ReportAlert ==
    /\ rep.pc = "alert"
    /\ rep' = [rep EXCEPT !.pc = IF "check" \in AlerterMethods THEN "idle" ELSE "dead"]
    /\ UNCHANGED <<agg_flows, tables, agg_lock, rcv, flushed, recorded>>
    /\ UNCHANGED <<parseVars, now, globalVars, hostVars, cacheVars, coordVars, mirrorVars>>

DoRecordCall == \E k \in AggKeys, n \in {1, 2} : RecordCall(k, n)

NextFlow ==
    \/ DoRecordCall \/ RecordAcquire \/ RecordEntry \/ RecordPackets \/ RecordBytes
    \/ RecordRelease
    \/ FlushCall \/ FlushAcquire \/ FlushSwap \/ FlushRelease \/ FlushReturn
    \/ ReportAlert

InitFlow ==
    /\ agg_flows = 1
    /\ tables = <<(<<>>)>>
    /\ agg_lock = "free"
    /\ rcv = [pc |-> "idle", key |-> 1, len |-> 1, tab |-> 1]
    /\ rep = [pc |-> "idle", old |-> 1]
    /\ flushed = <<>>
    /\ recorded = [calls |-> 0, done |-> [k \in AggKeys |-> <<0, 0>>]]

----------------------------------------------------------------------------
\* One report of the coordinator (Coordinator._report): the totals and the
\* per-address aggregates of the window's flows, the metadata lookup of the
\* top addresses, then check_detail and check_host

\* Entries kept of each sorted list (sorted(...)[:10])
TopN == 1

\* The non-empty flow dicts a window can hold: up to three flows between three
\* addresses, key -> [packets, bytes]
ReportInputs ==
    UNION {[D -> {<<1, 3>>, <<3, 2>>, <<3, 3>>}] :
              D \in (SUBSET {FlowA, FlowB, <<"10.0.1.1", "10.0.1.3", 6, 1234, 443>>}) \ {{}}}

\* src_agg (pos = 1), dst_agg (pos = 2): per address the sums over its flows
AggregateBy(flows, pos) ==
    [ip \in {k[pos] : k \in DOMAIN flows} |->
        SumOver(flows, {k \in DOMAIN flows : k[pos] = ip})]

\* sorted(agg.items(), key=bytes, reverse=True)[:10]: the addresses that can
\* make the list (equal byte counts rank in the order of insertion)
TopSets(agg) ==
    {S \in SUBSET DOMAIN agg :
        /\ Cardinality(S) = Min(TopN, Cardinality(DOMAIN agg))
        /\ \A a \in S, b \in (DOMAIN agg) \ S : agg[a][2] >= agg[b][2]}

\* The orders in which the keys of a dict can have been inserted
InsertionOrders(S) ==
    {o \in [1..Cardinality(S) -> S] : \A k \in S : \E i \in DOMAIN o : o[i] = k}

\* sorted(flows.items(), key=lambda x: x[1][1], reverse=True): the sort is
\* stable, so equal byte counts stay in the order of insertion
RECURSIVE SortedByBytes(_, _)
SortedByBytes(flows, order) ==
    IF order = <<>> THEN <<>>
    ELSE LET i == CHOOSE n \in 1..Len(order) :
                      /\ \A j \in 1..Len(order) : flows[order[j]][2] <= flows[order[n]][2]
                      /\ \A j \in 1..(n - 1) : flows[order[j]][2] < flows[order[n]][2]
         IN  <<order[i]>> \o
             SortedByBytes(flows, SubSeq(order, 1, i - 1) \o SubSeq(order, i + 1, Len(order)))

\* sorted_flows[:10]
FirstN(seq) == SubSeq(seq, 1, Min(TopN, Len(seq)))

\* all_ips = list({ip for ip, _ in top_src} | {ip for ip, _ in top_dst})
EnrichTargets(src_agg, dst_agg, top_src, top_dst) == top_src \cup top_dst

\* enriched = {e["ip"]: e for e in self._enricher.enrich_many(all_ips)}
Enriched(ips) == [ip \in ips |-> EnrichResult(cache, ip)]

\* info = enriched.get(ip, {}); label = info.get("name") or ... or ip
HostLabel(enriched, ip) ==
    IF ip \in DOMAIN enriched /\ Len(enriched[ip]) > 1 THEN enriched[ip][2] ELSE ip

NoReport ==
    [op |-> "none", flows |-> EmptyDict, top_flows |-> <<>>, top_src |-> {}, top_dst |-> {},
     src_agg |-> EmptyDict, dst_agg |-> EmptyDict, enriched |-> EmptyDict, labels |-> <<>>]

\* The reports of the model run with SNS_TOPIC_ARN and SLACK_WEBHOOK_URL unset
\* (sinks = {}), so check_detail and check_host publish nothing here
Report(flows, order, interval, top_src, top_dst) ==
    LET scaled == ReportFlows(flows, sample_rate)
        totals == Totals(scaled)
        src_agg == AggregateBy(scaled, 1)
        dst_agg == AggregateBy(scaled, 2)
        enriched == Enriched(EnrichTargets(src_agg, dst_agg, top_src, top_dst))
        r == CheckDetailResult(last_alert_time, pending_detail, totals[2], totals[1],
                               interval, now)
        h == CheckHostResult(host_cooldowns, src_agg, dst_agg, interval, now,
                             host_threshold_bps, host_threshold_pps)
    IN  /\ report_call.op = "none"
        /\ last_alert_time' = r.last_alert_time
        /\ pending_detail' = r.pending_detail
        /\ call' = CallRecord("check_detail", totals[2], totals[1], interval, r)
        /\ mon' = MonAfter("check_detail", SeesBreach(totals[2], totals[1], interval), r.emit)
        /\ host_cooldowns' = h.host_cooldowns
        /\ host_call' = [op |-> "check_host",
                         all_ips |-> MergeDirections(src_agg, dst_agg),
                         interval_sec |-> interval, t |-> now,
                         pre_cooldowns |-> host_cooldowns, alerted |-> h.alerted]
        /\ report_call' = [op |-> "report", flows |-> scaled,
                           top_flows |-> FirstN(SortedByBytes(scaled, order)),
                           top_src |-> top_src, top_dst |-> top_dst,
                           src_agg |-> src_agg, dst_agg |-> dst_agg,
                           enriched |-> enriched,
                           labels |-> [i \in 1..Len(h.alerted) |->
                                          HostLabel(enriched, h.alerted[i][1])]]
        /\ UNCHANGED <<now, sinks, notify, host_threshold_bps, host_threshold_pps,
                       cacheVars, coordVars, vxlanVars, mirrorVars>>

DoReport ==
    /\ report_call.op = "none"
    /\ \E flows \in ReportInputs, i \in Intervals \ {0} :
        \E order \in InsertionOrders(DOMAIN flows),
           top_src \in TopSets(AggregateBy(ReportFlows(flows, sample_rate), 1)),
           top_dst \in TopSets(AggregateBy(ReportFlows(flows, sample_rate), 2)) :
            Report(flows, order, i, top_src, top_dst)

----------------------------------------------------------------------------
\* Mirror-session lifecycle (lambda/mirror_lifecycle.py): the handler of the
\* EC2 state-change events.  One invocation is one step; the events of the
\* model are handled one after the other.

\* Events handled in a run
MaxEvents == 3

MANAGED_TAG == "dx-mirror-auto"
BUSINESS_SUBNET_IDS == {"subnet-biz"}

InstanceIds == {"i-1", "i-2"}
\* detail.state of an event
EventStates == {"pending", "running", "shutting-down", "stopped", "terminated"}

\* The n-th interface of an instance
Eni(i, n) == <<i, n>>

\* What describe_instances can answer for an instance: its subnet, and its
\* interfaces in the order of the answer
InstanceViews(i) ==
    [SubnetId : {"subnet-biz", "subnet-other"},
     NetworkInterfaces : {<<>>, <<Eni(i, 1)>>, <<Eni(i, 1), Eni(i, 2)>>}]

\* A session as describe_traffic_mirror_sessions lists it
Session(id, eni, managed_by, source) ==
    [TrafficMirrorSessionId |-> id, NetworkInterfaceId |-> eni, SessionNumber |-> 1,
     ManagedBy |-> managed_by, SourceInstance |-> source]

\* Sessions that exist before the first event: one made by hand on the first
\* interface of i-1, one made by this handler on the second
Preexisting ==
    {Session(-1, Eni("i-1", 1), "manual", "none"),
     Session(-2, Eni("i-1", 2), MANAGED_TAG, "i-1")}

\* describe_traffic_mirror_sessions(Filters=[network-interface-id = eni_id])
ExistingNever(sessions, eni_id) == {}
Existing(sessions, eni_id) == {s \in sessions : s.NetworkInterfaceId = eni_id}

\* describe_traffic_mirror_sessions(Filters=[tag:ManagedBy, tag:SourceInstance])
Tagged(sessions, instance_id) ==
    {s \in sessions : s.ManagedBy = MANAGED_TAG /\ s.SourceInstance = instance_id}

NoMirrorCall ==
    [state |-> "none", instance_id |-> "", pre_sessions |-> {}, created |-> {},
     attempted |-> {}, failed |-> {}, raised |-> FALSE]

\* The invocation record and the counters after an invocation
Handled(state, instance_id, created, attempted, failed, exc, gone) ==
    /\ mirror_call' = [state |-> state, instance_id |-> instance_id,
                       pre_sessions |-> mirror_sessions, created |-> created,
                       attempted |-> attempted, failed |-> failed, raised |-> exc]
    /\ mirror_log' = [handled |-> mirror_log.handled + 1,
                      created |-> [i \in InstanceIds |->
                                      mirror_log.created[i] +
                                      (IF i = instance_id THEN Cardinality(created) ELSE 0)],
                      gone |-> [i \in InstanceIds |->
                                   mirror_log.gone[i] \/ (gone /\ i = instance_id)]]

\* _handle_running: nothing is created when describe_instances fails, when the
\* instance is outside the business subnets, when it has no interface yet, or
\* when a session for its first interface exists; else one session is created
\* (an exception of create_traffic_mirror_session leaves the handler)
HandleRunning(instance_id, describe_ok, create_ok) ==
    LET inst == instances[instance_id]
        eni_id == inst.NetworkInterfaces[1]
        skip == \/ ~describe_ok
                \/ inst.SubnetId \notin BUSINESS_SUBNET_IDS
                \/ inst.NetworkInterfaces = <<>>
                \/ Existing(mirror_sessions, eni_id) # {}
        new == Session(mirror_log.handled + 1, eni_id, MANAGED_TAG, instance_id)
    IN  /\ mirror_sessions' = IF skip \/ ~create_ok THEN mirror_sessions
                              ELSE mirror_sessions \cup {new}
        /\ Handled("running", instance_id,
                   IF skip \/ ~create_ok THEN {} ELSE {new}, {}, {},
                   ~skip /\ ~create_ok, FALSE)

\* _handle_gone: every listed session is deleted in turn; a deletion that
\* fails is logged and the loop goes on
HandleGone(state, instance_id, failing) ==
    LET sessions == Tagged(mirror_sessions, instance_id) IN
    /\ failing \subseteq sessions
    /\ mirror_sessions' = mirror_sessions \ (sessions \ failing)
    /\ Handled(state, instance_id, {}, sessions, failing, FALSE, TRUE)

\* handler(event, context)
Handler(instance_id, state, describe_ok, create_ok, failing) ==
    /\ mirror_log.handled < MaxEvents
    /\ IF instance_id = ""
       THEN /\ describe_ok /\ create_ok /\ failing = {}
            /\ Handled(state, instance_id, {}, {}, {}, FALSE, FALSE)
            /\ UNCHANGED mirror_sessions
       ELSE IF state = "running"
       THEN failing = {} /\ HandleRunning(instance_id, describe_ok, create_ok)
       ELSE IF state \in {"terminated", "shutting-down", "stopped"}
       THEN describe_ok /\ create_ok /\ HandleGone(state, instance_id, failing)
       ELSE /\ describe_ok /\ create_ok /\ failing = {}
            /\ Handled(state, instance_id, {}, {}, {}, FALSE, FALSE)
            /\ UNCHANGED mirror_sessions
    /\ UNCHANGED <<instances, now, globalVars, hostVars, cacheVars, coordVars, vxlanVars>>

DoHandler ==
    \E instance_id \in InstanceIds \cup {""}, state \in EventStates,
       describe_ok \in BOOLEAN, create_ok \in BOOLEAN, failing \in SUBSET mirror_sessions :
        Handler(instance_id, state, describe_ok, create_ok, failing)

\* An instance without an interface gets its first one
AttachInterface(i) ==
    /\ instances[i].NetworkInterfaces = <<>>
    /\ instances' = [instances EXCEPT ![i].NetworkInterfaces = <<Eni(i, 1)>>]
    /\ UNCHANGED <<mirror_sessions, mirror_call, mirror_log, now, globalVars, hostVars,
                   cacheVars, coordVars, vxlanVars>>

DoAttachInterface == \E i \in InstanceIds : AttachInterface(i)

NextMirror == DoHandler \/ DoAttachInterface

NoMirrorLog ==
    [handled |-> 0, created |-> [i \in InstanceIds |-> 0],
     gone |-> [i \in InstanceIds |-> FALSE]]

\* No event has been delivered
InitMirror ==
    /\ instances = [i \in InstanceIds |->
                       [SubnetId |-> "subnet-biz", NetworkInterfaces |-> <<Eni(i, 1)>>]]
    /\ mirror_sessions = {}
    /\ mirror_call = NoMirrorCall
    /\ mirror_log = NoMirrorLog

----------------------------------------------------------------------------
InitClock ==
    /\ now = ClockStart

InitGlobal ==
    /\ last_alert_time = 0
    /\ pending_detail = FALSE
    /\ call = NoCall
    /\ mon = MonInit
    /\ sinks = {}
    /\ notify = NoDelivery

InitHostState ==
    /\ host_cooldowns = EmptyDict
    /\ host_call = NoHostCall
    /\ report_call = NoReport

\* The default environment: per-host alerting disabled
Init ==
    /\ InitClock /\ InitGlobal /\ InitHostState /\ InitCache /\ InitCoord /\ InitParseIdle /\ InitFlow /\ InitMirror
    /\ sample_rate = FullRate
    /\ host_threshold_bps = 0
    /\ host_threshold_pps = 0

\* Any environment for ALERT_HOST_BPS / ALERT_HOST_PPS
InitHost ==
    /\ InitClock /\ InitGlobal /\ InitHostState /\ InitCache /\ InitCoord /\ InitParseIdle /\ InitFlow /\ InitMirror
    /\ sample_rate = FullRate
    /\ host_threshold_bps \in {0, HostBps}
    /\ host_threshold_pps \in {0, HostPps}

NextHost == TickHost \/ DoCheckHost

SpecHost == InitHost /\ [][NextHost]_vars

SpecCache == Init /\ [][NextCache]_vars

DoCheckFast == \E b \in TotalBytes, p \in TotalPackets, i \in Intervals : CheckFast(b, p, i)
DoCheckDetail == \E b \in TotalBytes, p \in TotalPackets, i \in Intervals : CheckDetail(b, p, i)

NextAlert == Tick \/ DoCheckFast \/ DoCheckDetail

SpecAlert == Init /\ [][NextAlert]_vars

\* Any environment for PROBE_SAMPLE_RATE
InitProbe ==
    /\ InitClock /\ InitGlobal /\ InitHostState /\ InitCache /\ InitCoord /\ InitParseIdle /\ InitFlow /\ InitMirror
    /\ host_threshold_bps = 0
    /\ host_threshold_pps = 0
    /\ sample_rate \in SampleRates

SpecProbe == InitProbe /\ [][NextProbe]_vars

\* Any datagram of the model arrives and is parsed
InitParse ==
    /\ InitClock /\ InitGlobal /\ InitHostState /\ InitCache /\ InitCoord /\ InitFlow /\ InitMirror
    /\ sample_rate = FullRate
    /\ host_threshold_bps = 0
    /\ host_threshold_pps = 0
    /\ sent \in Packets
    /\ data = Wire(sent)
    /\ result = NotParsed

SpecParse == InitParse /\ [][Parse]_vars

SpecFlow == Init /\ [][NextFlow]_vars

\* The report of any window, under any host thresholds, with the cache empty or
\* filled, and with no host alerted before or one alerted a moment ago
InitReport ==
    /\ InitClock /\ InitGlobal /\ InitCoord /\ InitParseIdle /\ InitFlow /\ InitMirror
    /\ host_cooldowns \in {EmptyDict, [ip \in {"10.0.1.1"} |-> ClockStart - 1]}
    /\ host_call = NoHostCall
    /\ report_call = NoReport
    /\ sample_rate = FullRate
    /\ host_threshold_bps \in {0, HostBps}
    /\ host_threshold_pps \in {0, HostPps}
    /\ cache \in {EmptyDict, [ip \in {"10.0.1.1", "10.0.1.2", "10.0.1.3"} |-> "i-new"]}
    /\ running = FALSE /\ lock = "free" /\ main_pc = "new" /\ bg_pc = "unstarted"
    /\ ref = RefIdle /\ rd = RdIdle /\ ref_last = NoRefresh /\ cycles = 0

SpecReport == InitReport /\ [][DoReport]_vars

\* One check of the alert engine, of either tier, in any environment of sinks
\* and host thresholds, on a fresh engine or one that alerted a moment ago
InitEngine ==
    /\ InitClock /\ InitCache /\ InitCoord /\ InitParseIdle /\ InitFlow /\ InitMirror
    /\ sample_rate = FullRate
    /\ \E st \in {<<0, FALSE>>, <<ClockStart - 1, FALSE>>, <<ClockStart - 1, TRUE>>} :
           last_alert_time = st[1] /\ pending_detail = st[2]
    /\ call = NoCall
    /\ mon = MonInit
    /\ sinks \in SUBSET {"sns", "slack"}
    /\ notify = NoDelivery
    /\ host_threshold_bps \in {0, HostBps}
    /\ host_threshold_pps \in {0, HostPps}
    /\ host_cooldowns \in {EmptyDict, [ip \in {"10.0.1.1"} |-> ClockStart - 1]}
    /\ host_call = NoHostCall
    /\ report_call = NoReport

FirstCheckFast == notify.op = "none" /\ DoCheckFast
FirstCheckDetail == notify.op = "none" /\ DoCheckDetail
FirstCheckHost == notify.op = "none" /\ DoCheckHost

NextEngine == FirstCheckFast \/ FirstCheckDetail \/ FirstCheckHost

SpecEngine == InitEngine /\ [][NextEngine]_vars

\* The handler in any account: instances in any subnet with any interfaces,
\* with or without sessions made earlier
InitLifecycle ==
    /\ InitClock /\ InitGlobal /\ InitHostState /\ InitCache /\ InitCoord /\ InitParseIdle
    /\ InitFlow
    /\ sample_rate = FullRate
    /\ host_threshold_bps = 0
    /\ host_threshold_pps = 0
    /\ instances \in [InstanceIds -> UNION {InstanceViews(i) : i \in InstanceIds}]
    /\ \A i \in InstanceIds : instances[i] \in InstanceViews(i)
    /\ mirror_sessions \in SUBSET Preexisting
    /\ mirror_call = NoMirrorCall
    /\ mirror_log = NoMirrorLog

SpecMirror == InitLifecycle /\ [][NextMirror]_vars

\* Coordinator.start() from its first statement: the enricher is not started
\* and no worker process exists
InitStartup ==
    /\ InitClock /\ InitGlobal /\ InitHostState /\ InitCache /\ InitParseIdle /\ InitFlow /\ InitMirror
    /\ host_threshold_bps = 0
    /\ host_threshold_pps = 0
    /\ sample_rate = FullRate
    /\ stop_event = FALSE
    /\ queues = EmptyQueues
    /\ wpc = [w \in Workers |-> "unlaunched"]
    /\ ctx = [w \in Workers |-> "none"]
    /\ wflows = [w \in Workers |-> NoSnap]
    /\ queue_drops = [w \in Workers |-> 0]
    /\ captured = <<>>
    /\ cpc = "enricher"
    /\ fresh = NoFlows
    /\ fast_check = NoFastCheck
    /\ accumulated = NoFlows
    /\ elapsed = 0
    /\ raised = FALSE
    /\ frames = [f \in Frames |-> IdleFrame]
    /\ signals = 0
    /\ stop_runs = 0
    /\ enricher_stops = 0
    /\ reports = <<>>
    /\ drain_order = <<>>

\* The run of the probe up to its first report
FirstWindow == reports = <<>> /\ NextProbe

NextStartup == StartEnricher \/ DoLaunchWorkers \/ FirstWindow

SpecStartup == InitStartup /\ [][NextStartup]_vars

----------------------------------------------------------------------------
\* Properties of the global tier

\* The breach a call's arguments amount to: a rate is computed only for a
\* positive interval, and a rate equal to its threshold is no breach.
CallBreach ==
    /\ call.interval_sec > 0
    /\ \/ call.total_bytes * 8 > ThresholdBps * call.interval_sec
       \/ call.total_packets > ThresholdPps * call.interval_sec

\* C1 (as claimed): a [FAST] is followed by at most one [DETAIL]; the next
\* check_detail after a [FAST] emits [DETAIL] iff it sees a breach, and otherwise
\* emits nothing and clears pending_detail; no [DETAIL] is emitted without a
\* preceding [FAST] that is still unanswered.
C1_FollowUpGuarantee ==
    /\ mon.details_since_fast <= 1
    /\ (call.op = "check_detail" /\ call.pre_awaiting) =>
          /\ (call.emit = "DETAIL") <=> CallBreach
          /\ ~CallBreach => (call.emit = "none" /\ ~pending_detail)
    /\ (call.emit = "DETAIL") => call.pre_unanswered

\* C2: a check_fast that fires is at least cooldown_sec after the alert that last
\* set last_alert_time, and at least cooldown_sec after the previous [FAST].
C2_FastCooldown ==
    (call.op = "check_fast" /\ call.ret) =>
        /\ call.t - call.pre_last >= CooldownSec
        /\ call.pre_fast_at >= 0 => call.t - call.pre_fast_at >= CooldownSec

C2_Witness ==
    /\ call.op = "check_fast" /\ call.ret
    /\ call.pre_fast_at >= 0
    /\ call.t - call.pre_fast_at >= CooldownSec

\* C3 (as claimed): after any invocation of check_detail pending_detail is false,
\* and pending_detail is true only if a firing check_fast set it and no check_detail
\* has been invoked since.
C3_PendingOnlyUntilDetail ==
    /\ call.op = "check_detail" => ~pending_detail
    /\ pending_detail => mon.awaiting
    /\ (pending_detail /\ ~call.pre_pending) => (call.op = "check_fast" /\ call.ret)

\* C4: when the first call is a breaching check_fast and every call since then
\* breaches within cooldown_sec of it, exactly one [FAST] has been emitted, no
\* standalone alert, and exactly one [DETAIL] once check_detail has been called.
C4_FastDetailPair ==
    mon.phase = "run" =>
        /\ mon.fasts = 1
        /\ mon.alerts = 0
        /\ mon.details = IF mon.detail_calls > 0 THEN 1 ELSE 0

C4_Witness ==
    /\ mon.phase = "run"
    /\ mon.detail_calls = 2
    /\ call.op = "check_detail" /\ ~call.ret /\ CallBreach
    /\ call.t > mon.pair_at

\* C5: check_detail with pending_detail false and a breach fires the full alert iff
\* the cooldown has elapsed, and then stamps last_alert_time; otherwise it returns
\* false, emits nothing and leaves last_alert_time; pending_detail stays false.
C5_StandaloneDetail ==
    (call.op = "check_detail" /\ ~call.pre_pending /\ CallBreach) =>
        /\ call.ret <=> (call.t - call.pre_last >= CooldownSec)
        /\ call.ret => (call.emit = "ALERT" /\ last_alert_time = call.t)
        /\ ~call.ret => (call.emit = "none" /\ last_alert_time = call.pre_last)
        /\ ~pending_detail

C5_Witness ==
    /\ call.op = "check_detail" /\ ~call.pre_pending /\ CallBreach
    /\ call.ret /\ call.emit = "ALERT"
    /\ call.pre_last > 0

----------------------------------------------------------------------------
\* Properties of the per-host tier

AlertedIPs == {host_call.alerted[k][1] : k \in 1..Len(host_call.alerted)}

\* The host-alert time an address had before the call (0 when it had none)
PreLast(ip) ==
    IF ip \in DOMAIN host_call.pre_cooldowns THEN host_call.pre_cooldowns[ip] ELSE 0

\* The address's rate exceeds a positive host threshold in the call
HostCallBreach(ip) ==
    /\ ip \in DOMAIN host_call.all_ips
    /\ host_call.interval_sec > 0
    /\ \/ /\ host_threshold_bps > 0
          /\ host_call.all_ips[ip][2] * 8 > host_threshold_bps * host_call.interval_sec
       \/ /\ host_threshold_pps > 0
          /\ host_call.all_ips[ip][1] > host_threshold_pps * host_call.interval_sec

\* check_host called for the one address ip alone, with only ip's own cooldown
SoloResult(ip) ==
    LET e == host_call.all_ips[ip]
        own == [k \in DOMAIN host_call.pre_cooldowns \cap {ip} |-> host_call.pre_cooldowns[k]]
        one == [k \in {ip} |-> <<e[1], e[2]>>]
    IN  CheckHostResult(own,
                        IF e[3] = "source" THEN one ELSE EmptyDict,
                        IF e[3] = "source" THEN EmptyDict ELSE one,
                        host_call.interval_sec, host_call.t,
                        host_threshold_bps, host_threshold_pps)

\* C6: whether an address is alerted, and its host-alert time afterwards, are what
\* check_host gives for that address alone with its own last host-alert time: the
\* other addresses of the call and their cooldowns have no influence.
C6_PerHostIndependence ==
    host_call.op = "check_host" =>
        \A ip \in DOMAIN host_call.all_ips :
            /\ (ip \in AlertedIPs) <=> (SoloResult(ip).alerted # <<>>)
            /\ HostLast(host_cooldowns, ip) = HostLast(SoloResult(ip).host_cooldowns, ip)

\* One host is suppressed by its own cooldown while another breaching host alerts
C6_Witness ==
    /\ host_call.op = "check_host"
    /\ \E a \in IPs, b \in IPs :
          /\ a # b
          /\ HostCallBreach(a) /\ a \notin AlertedIPs
          /\ host_call.t - PreLast(a) < CooldownSec
          /\ HostCallBreach(b) /\ b \in AlertedIPs

\* C7: check_host returns exactly the breaching addresses whose own cooldown has
\* elapsed, each once, stamps their host-alert time with now and leaves the
\* host-alert times of all other addresses as they were.
C7_HostAlertedExactly ==
    host_call.op = "check_host" =>
        /\ \A ip \in IPs :
              (ip \in AlertedIPs) <=>
                  (HostCallBreach(ip) /\ host_call.t - PreLast(ip) >= CooldownSec)
        /\ Cardinality(AlertedIPs) = Len(host_call.alerted)
        /\ \A ip \in AlertedIPs :
              ip \in DOMAIN host_cooldowns /\ host_cooldowns[ip] = host_call.t
        /\ \A ip \in IPs \ AlertedIPs :
              /\ (ip \in DOMAIN host_cooldowns) <=> (ip \in DOMAIN host_call.pre_cooldowns)
              /\ ip \in DOMAIN host_cooldowns => host_cooldowns[ip] = PreLast(ip)

C7_Witness ==
    /\ host_call.op = "check_host"
    /\ Cardinality(DOMAIN host_call.all_ips) = 2
    /\ Len(host_call.alerted) = 1
    /\ \E ip \in IPs : ip \notin AlertedIPs /\ ~HostCallBreach(ip)
    /\ host_call.pre_cooldowns # EmptyDict

\* C8: with both host thresholds 0 check_host alerts nothing and leaves the
\* cooldown map; with one threshold 0 an alerted address exceeds the other one.
C8_HostDisabled ==
    host_call.op = "check_host" =>
        /\ (host_threshold_bps = 0 /\ host_threshold_pps = 0) =>
              (host_call.alerted = <<>> /\ host_cooldowns = host_call.pre_cooldowns)
        /\ host_threshold_bps = 0 =>
              \A ip \in AlertedIPs :
                  host_call.all_ips[ip][1] > host_threshold_pps * host_call.interval_sec
        /\ host_threshold_pps = 0 =>
              \A ip \in AlertedIPs :
                  host_call.all_ips[ip][2] * 8 > host_threshold_bps * host_call.interval_sec

C8_Witness ==
    /\ host_threshold_bps = 0 /\ host_threshold_pps = 0
    /\ host_call.op = "check_host"
    /\ host_call.interval_sec > 0
    /\ \E ip \in DOMAIN host_call.all_ips : host_call.all_ips[ip][2] * 8 > 0
    /\ host_call.alerted = <<>>

----------------------------------------------------------------------------
\* Properties of the metadata cache

\* What a lookup of the k-th address of the batch gives in the map S
BatchEntry(S, k) ==
    IF rd.ips[k] \in DOMAIN S THEN <<rd.ips[k], S[rd.ips[k]]>> ELSE <<rd.ips[k]>>

\* C9: all results of an enrich_many batch come from one map that was the
\* published cache at some point of the batch (the one at the call or one
\* published during it), and the map the batch copied is such a published map.
C9_CacheAtomicity ==
    rd.op = "enrich_many" =>
        /\ rd.pc \in {"lookup", "return"} => rd.snapshot \in rd.seen
        /\ \E S \in rd.seen :
              \A k \in 1..Len(rd.results) : rd.results[k] = BatchEntry(S, k)

\* A batch of two addresses returns while a refresh published a different map
\* after the batch took its copy
C9_Witness ==
    /\ rd.op = "enrich_many" /\ rd.pc = "return"
    /\ Len(rd.results) = 2
    /\ Cardinality(rd.seen) >= 2
    /\ cache # rd.snapshot
    /\ \A k \in 1..2 : rd.results[k] # BatchEntry(cache, k)

\* C10: after a failed refresh the published map is the one from before the
\* refresh, a known address is still enriched with its metadata, nothing is
\* published while a refresh builds its map, and the thread that ran the refresh
\* goes on.
C10_CacheFallback ==
    /\ ref.pc # "idle" => cache = ref.pre_cache
    /\ ref_last.outcome = "failed" =>
          /\ cache = ref_last.pre_cache
          /\ \A ip \in DOMAIN ref_last.pre_cache :
                EnrichResult(cache, ip) = <<ip, ref_last.pre_cache[ip]>>
          /\ main_pc # "crashed" /\ bg_pc # "crashed"
          /\ ref_last.thread = "bg" =>
                bg_pc \in {"loop", "sleeping", "refreshing", "exited"}
          /\ ref_last.thread = "main" => main_pc \in {"spawn", "ready"}

\* A refresh of the refresher thread failed after part of a map was built, a
\* non-empty map was published before it, and the loop runs its next refresh
C10_Witness ==
    /\ ref_last.outcome = "failed" /\ ref_last.partial
    /\ ref_last.thread = "bg"
    /\ ref_last.pre_cache # EmptyDict
    /\ bg_pc = "refreshing" /\ ref.pc = "paging"
    /\ cache = ref_last.pre_cache

----------------------------------------------------------------------------
\* Properties of the workers and the coordinator

\* The counters the captures of a set of snapshots counted for one key
RECURSIVE RawSum(_, _)
RawSum(ids, k) ==
    IF ids = {} THEN <<0, 0>>
    ELSE LET id == CHOOSE x \in ids : TRUE
             rest == RawSum(ids \ {id}, k)
             c == Get(captured[id].raw, k)
         IN <<c[1] + rest[1], c[2] + rest[2]>>

RawKeys(ids) == UNION {DOMAIN captured[id].raw : id \in ids}

\* C11: with sample rate r every report shows, for each flow, the packets and bytes
\* the captures counted for it divided by r: the inverse scale is applied exactly
\* once between the capture and the report.
C11_ScaledOnce ==
    \A i \in 1..Len(reports) :
        /\ DOMAIN reports[i].flows = RawKeys(reports[i].ids)
        /\ \A k \in DOMAIN reports[i].flows :
            /\ reports[i].flows[k][1] * sample_rate[1] = RawSum(reports[i].ids, k)[1] * sample_rate[2]
            /\ reports[i].flows[k][2] * sample_rate[1] = RawSum(reports[i].ids, k)[2] * sample_rate[2]

Range(seq) == {seq[i] : i \in 1..Len(seq)}
Drained == Range(drain_order)
Reported == UNION {reports[i].ids : i \in 1..Len(reports)}

\* C12: once the coordinator has stopped, every snapshot that was taken off a worker
\* queue has been reported: what the run loop's accumulator held for the current
\* window is in the last report, nothing drained is discarded.
C12_LosslessShutdown ==
    cpc = "done" => Drained \subseteq Reported

\* The counters, as enqueued, of a set of snapshots for one key
RECURSIVE SnapSum(_, _)
SnapSum(ids, k) ==
    IF ids = {} THEN <<0, 0>>
    ELSE LET id == CHOOSE x \in ids : TRUE
             rest == SnapSum(ids \ {id}, k)
             c == Get(WorkerFlows(captured[id].raw, sample_rate), k)
         IN <<c[1] + rest[1], c[2] + rest[2]>>

\* The key-wise sums of a set of snapshots, one entry per key present in any of them
KeySums(ids) == [k \in RawKeys(ids) |-> SnapSum(ids, k)]

\* C13: while the coordinator runs, between two polls the accumulator is made of
\* exactly the snapshots drained since the window started (all drained and not yet
\* reported), with one entry per distinct key whose packets and bytes are the sums
\* of that key's counters over those snapshots.
C13_AccumulatorConservation ==
    (~stop_event /\ cpc \in {"loop", "sleep", "rollover"}) =>
        /\ accumulated.ids = Drained \ Reported
        /\ accumulated.flows = KeySums(accumulated.ids)

\* Two snapshots drained in different polls of one window are both in the accumulator
C13_Witness ==
    /\ ~stop_event /\ cpc = "rollover"
    /\ elapsed > COORDINATOR_POLL
    /\ Cardinality(accumulated.ids) > 1
    /\ \A id \in accumulated.ids : accumulated.flows[FlowA][1] > captured[id].raw[FlowA][1]

C15_QueueBounded ==
    \A w \in Workers : Len(queues[w]) <= QueueDepth

Produced(w) == {id \in 1..Len(captured) : captured[id].worker = w}
Enqueued(w) == {id \in Produced(w) : id \in Drained \/ \E i \in 1..Len(queues[w]) : queues[w][i].id = id}

\* C16: once the stop event is set a worker begins no capture cycle; a worker that
\* has left its loop has put the snapshot of its last cycle (every non-empty flush
\* was enqueued or counted as a queue drop) and has released its capture context,
\* and the context is released only after that.
C16_WorkerTermination ==
    /\ [][\A w \in Workers :
            (stop_event /\ wpc[w] # "capture") => wpc'[w] # "capture"]_vars
    /\ [](\A w \in Workers :
            /\ wpc[w] = "exited" =>
                /\ ctx[w] # "open"
                /\ wflows[w] = NoSnap
                /\ Cardinality(Produced(w)) = Cardinality(Enqueued(w)) + queue_drops[w]
            /\ ctx[w] = "destroyed" => wpc[w] = "exited")

\* stop() found the queues empty at its first drain; a worker that was in a cycle
\* when the event was set has since enqueued that cycle's snapshot and exited
C16_Witness ==
    \E f \in Frames, w \in Workers :
        /\ frames[f].pc = "final" /\ frames[f].merged = NoFlows
        /\ wpc[w] = "exited" /\ ctx[w] = "destroyed"
        /\ queues[w] # <<>>

StopReturns(f) == frames[f].pc = "final" /\ frames'[f].pc = "none"

\* The next step of an activation of stop(), and how far the activation has come
StopStep(f) == StopSet(f) \/ StopDrain(f) \/ StopJoin(f) \/ StopFinal(f)
StopRank(fr) ==
    CASE fr.pc = "set" -> 0
      [] fr.pc = "sleep" -> 1
      [] fr.pc = "join" -> 1 + fr.idx
      [] fr.pc = "final" -> NumWorkers + 2
      [] OTHER -> 0

C18_StopIdempotent ==
    stop_runs <= 1 /\ enricher_stops <= 1

\* The position of a drained snapshot in the order of the get_nowait calls
Pos(id) == CHOOSE n \in 1..Len(drain_order) : drain_order[n] = id

\* C19: reports come out in the order of their data: of two reports, the one emitted
\* first holds only snapshots drained before every snapshot of the one emitted
\* later (the last report of stop() included); and the snapshots of one worker
\* queue are drained in the order the worker enqueued them.
C19_ReportOrder ==
    /\ \A i, j \in 1..Len(reports) :
        i < j => \A a \in reports[i].ids, b \in reports[j].ids : Pos(a) < Pos(b)
    /\ \A m, n \in 1..Len(drain_order) :
        (m < n /\ captured[drain_order[m]].worker = captured[drain_order[n]].worker)
            => drain_order[m] < drain_order[n]

\* The orders in which the queues can be visited, and a queue with its snapshots in
\* the opposite order of arrival
VisitOrders == {p \in [1..NumWorkers -> Workers] : \A a, b \in 1..NumWorkers : a # b => p[a] # p[b]}
Reversed(q) == [i \in 1..Len(q) |-> q[Len(q) + 1 - i]]
QueuedIds == UNION {{queues[w][i].id : i \in 1..Len(queues[w])} : w \in Workers}

\* C20: the merge is commutative and associative: what _drain_queues returns for
\* the queues as they are, and the accumulator after merging it, are the same for
\* every order of visiting the queues and of the snapshots in them, and the same
\* whether merged at once or queue by queue; the merged packets and bytes of every
\* key are the sums over the drained snapshots; empty queues give an empty dict.
C20_MergeOrderFree ==
    /\ \A p \in VisitOrders :
        /\ DrainIn(p, queues, NoFlows) = DrainQueues(queues)
        /\ DrainIn(p, [w \in Workers |-> Reversed(queues[w])], NoFlows) = DrainQueues(queues)
        /\ DrainIn(p, queues, accumulated) = Accumulate(accumulated, DrainQueues(queues))
    /\ DrainQueues(queues).ids = QueuedIds
    /\ DrainQueues(queues).flows = KeySums(QueuedIds)
    /\ queues = EmptyQueues => DrainQueues(queues) = NoFlows
    /\ cpc = "merge" => fresh.flows = KeySums(fresh.ids)

\* One drain has merged snapshots of both workers that count the same flow
C20_Witness ==
    /\ cpc = "merge"
    /\ \A w \in Workers : \E id \in fresh.ids : captured[id].worker = w
    /\ \A id \in fresh.ids : fresh.flows[FlowA][2] > captured[id].raw[FlowA][2]

----------------------------------------------------------------------------
\* Properties of the cache readers

\* C21: a lookup never waits for the refresher: whenever enrich or enrich_many is
\* about to read the cache it can take its next step, whatever the refresher
\* thread is doing (there is no lock a refresh could hold against a reader).
C21_ReaderWaitFree ==
    rd.pc = "acquire" => ENABLED EnrichAcquire

----------------------------------------------------------------------------
\* Properties of the datagram parser

Parsed == result # NotParsed
Accepted == Parsed /\ result.kind = "flow"

\* C22: for every datagram the parser raises no error and returns either None
\* or a key and a length, the length not larger than the datagram and the
\* key's protocol a byte value.
C22_ParserTotality ==
    Parsed =>
        /\ result.kind \in {"none", "flow"}
        /\ result.kind = "flow" =>
              /\ result.len <= Len(data)
              /\ result.key[3] \in 0..255

\* The header length the sender announced
SentIhl == (sent.version_ihl % 16) * 4

\* The datagram is cut short of n bytes, or of the ethertype / IHL it would need
Rejectable(n) ==
    \/ Len(data) < 8
    \/ Len(data) < 22
    \/ Len(data) < 42
    \/ Len(data) < n
    \/ SentIhl < 20
    \/ sent.ethertype # 2048

\* C23 (as stated): the parser returns None for every datagram shorter than 8,
\* 22, 42 or 42 + IHL bytes, with IHL < 20, or with an inner ethertype other
\* than 0x0800.
C23_ParserRejection ==
    Parsed /\ Rejectable(42 + SentIhl) => result = None

\* C23 (amended): the parser returns None for every datagram shorter than 8,
\* 22, 42 or 22 + IHL bytes, with IHL < 20, or with an inner ethertype other
\* than 0x0800.
C23_ParserRejectionAmended ==
    Parsed /\ Rejectable(22 + SentIhl) => result = None

\* An IPv4 datagram that holds 20 header bytes but not the 24 its IHL announces
C23_Witness ==
    /\ Parsed /\ result = None
    /\ sent.ethertype = 2048 /\ SentIhl = 24
    /\ Len(data) >= 42 /\ Len(data) < 46

\* The four transport bytes at the IHL offset are inside the datagram
HasTransport == Len(data) >= 22 + SentIhl + 4

\* C24: an accepted datagram's key carries the two big-endian 16-bit values at
\* the IHL offset as its ports exactly when the protocol is TCP or UDP and four
\* bytes exist there, and both ports 0 otherwise; the length is the header's
\* total_length and the addresses are the header's source and destination.
C24_ParserPorts ==
    Accepted =>
        /\ IF sent.protocol \in {6, 17} /\ HasTransport
           THEN result.key[4] = sent.ports[1] /\ result.key[5] = sent.ports[2]
           ELSE result.key[4] = 0 /\ result.key[5] = 0
        /\ result.key[3] = sent.protocol
        /\ result.len = sent.total_length
        /\ result.key[1] = AddrA /\ result.key[2] = AddrB

\* A UDP datagram with a 24-byte IPv4 header whose ports were read
C24_Witness ==
    /\ Accepted
    /\ sent.protocol = 17 /\ SentIhl = 24 /\ HasTransport
    /\ result.key[4] = 53 /\ result.key[5] = 65535

----------------------------------------------------------------------------
\* Properties of the flow table

\* Neither thread is inside record() or flush()
Quiescent == rcv.pc = "idle" /\ rep.pc \in {"idle", "alert", "dead"}
EmptyTable == <<>>

\* C25: within one epoch the table never holds more than C_TABLE distinct keys
\* (a record for a new key on a full table is dropped and counted instead).
C25_TableCapacity ==
    \A i \in 1..Len(tables) : Cardinality(DOMAIN tables[i]) <= C_TABLE

\* Counters of key k in table t (nothing when the key is not there)
InTable(t, k) == IF k \in DOMAIN t THEN t[k] ELSE <<0, 0>>

RECURSIVE SumFlushed(_, _)
SumFlushed(i, k) ==
    IF i = 0 THEN <<0, 0>>
    ELSE LET rest == SumFlushed(i - 1, k)
             here == InTable(flushed[i], k)
         IN  <<rest[1] + here[1], rest[2] + here[2]>>

\* The table a flush has taken and not yet handed to its caller
InFlight(k) ==
    IF rep.pc \in {"unlock", "return"} THEN InTable(tables[rep.old], k) ELSE <<0, 0>>

Accounted(k) ==
    LET f == SumFlushed(Len(flushed), k)
        o == InFlight(k)
        c == InTable(tables[agg_flows], k)
    IN  <<f[1] + o[1] + c[1], f[2] + o[2] + c[2]>>

\* C26: whatever the interleaving of record() and flush(), every record is
\* counted in exactly one flush result: per key, the flush results plus the
\* current table add up to the records made; flush hands over the table it
\* found and leaves an empty one in its place, which later records fill.
C26_RecordFlushConservation ==
    /\ rcv.pc = "idle" => \A k \in AggKeys : Accounted(k) = recorded.done[k]
    /\ rep.pc = "unlock" => tables[agg_flows] = EmptyTable /\ rep.old = agg_flows - 1
    /\ \A i \in 1..Len(flushed) : flushed[i] = tables[i]

\* A record made between two flushes, and another made after the second
C26_Witness ==
    /\ Quiescent
    /\ Len(flushed) = 2
    /\ flushed[2] # EmptyTable
    /\ tables[agg_flows] # EmptyTable

----------------------------------------------------------------------------
\* Frame of the fast check

\* Neither rate of the last call is strictly above its threshold
CallWithinThresholds ==
    /\ call.total_bytes * 8 <= ThresholdBps * call.interval_sec
    /\ call.total_packets <= ThresholdPps * call.interval_sec

CallInCooldown == call.t - call.pre_last < CooldownSec

\* C27: a check_fast that returns false (interval_sec <= 0, no threshold strictly
\* exceeded, or inside the cooldown) emits nothing and leaves last_alert_time and
\* pending_detail as they were; one that fires sets last_alert_time to now and
\* pending_detail to true and returns true.  A rate equal to a threshold is no
\* breach.
C27_FastFrame ==
    call.op = "check_fast" =>
        /\ (call.interval_sec <= 0 \/ CallWithinThresholds \/ CallInCooldown) <=> ~call.ret
        /\ ~call.ret =>
              /\ call.emit = "none"
              /\ last_alert_time = call.pre_last
              /\ pending_detail = call.pre_pending
        /\ call.ret =>
              /\ call.emit = "FAST"
              /\ last_alert_time = call.t
              /\ pending_detail

\* Both rates exactly at their thresholds, outside the cooldown, with a
\* follow-up pending: nothing fires and nothing is touched
C27_Witness ==
    /\ call.op = "check_fast" /\ ~call.ret
    /\ call.interval_sec > 0
    /\ call.total_bytes * 8 = ThresholdBps * call.interval_sec
    /\ call.total_packets = ThresholdPps * call.interval_sec
    /\ ~CallInCooldown
    /\ call.pre_pending /\ pending_detail

----------------------------------------------------------------------------
\* The quick check of a coordinator poll

\* Packets and bytes of all keys over a set of snapshots, as the workers sent them
RECURSIVE SnapTotals(_, _)
SnapTotals(ids, ks) ==
    IF ks = {} THEN <<0, 0>>
    ELSE LET k == CHOOSE x \in ks : TRUE
             rest == SnapTotals(ids, ks \ {k})
             c == SnapSum(ids, k)
         IN  <<c[1] + rest[1], c[2] + rest[2]>>

----------------------------------------------------------------------------
\* Properties of a report

ReportAddresses == DOMAIN report_call.src_agg \cup DOMAIN report_call.dst_agg

\* C30: the enriched map of a report has an entry for every source and
\* destination address of the report, so every address check_host alerts on has
\* been looked up and its [HOST] alert carries the cache's metadata whenever the
\* cache knows the address.
C30_EnrichmentCoversAll ==
    report_call.op = "report" =>
        /\ \A ip \in ReportAddresses : ip \in DOMAIN report_call.enriched
        /\ \A i \in 1..Len(host_call.alerted) :
              LET ip == host_call.alerted[i][1] IN
              /\ ip \in DOMAIN report_call.enriched
              /\ ip \in DOMAIN cache => report_call.labels[i] = cache[ip]

\* The counters and the label check_host is to use for an address of the report
ChosenDirection(ip) ==
    LET s == report_call.src_agg
        d == report_call.dst_agg
    IN  IF ip \in DOMAIN s /\ ip \in DOMAIN d
        THEN IF d[ip][2] > s[ip][2] THEN <<d[ip][1], d[ip][2], "destination">>
             ELSE <<s[ip][1], s[ip][2], "source">>
        ELSE IF ip \in DOMAIN s THEN <<s[ip][1], s[ip][2], "source">>
        ELSE <<d[ip][1], d[ip][2], "destination">>

\* The chosen counters exceed a positive host threshold
ChosenBreach(ip) ==
    \/ /\ host_threshold_bps > 0
       /\ ChosenDirection(ip)[2] * 8 > host_threshold_bps * host_call.interval_sec
    \/ /\ host_threshold_pps > 0
       /\ ChosenDirection(ip)[1] > host_threshold_pps * host_call.interval_sec

\* C29: check_host evaluates each address with the packets and bytes of the
\* direction that has the larger byte count and labels the alert with that
\* direction; on equal byte counts the source direction is kept; an address of
\* one aggregate only uses that direction.
C29_HostDirection ==
    report_call.op = "report" =>
        /\ DOMAIN host_call.all_ips = ReportAddresses
        /\ \A ip \in ReportAddresses : host_call.all_ips[ip] = ChosenDirection(ip)
        /\ \A i \in 1..Len(host_call.alerted) :
              /\ host_call.alerted[i][2] = ChosenDirection(host_call.alerted[i][1])[3]
              /\ ChosenBreach(host_call.alerted[i][1])
        /\ \A ip \in ReportAddresses :
              (ChosenBreach(ip) /\ host_call.t - PreLast(ip) >= CooldownSec)
                  => ip \in AlertedIPs

\* An address with equal bytes and fewer packets as a source: the source counters
\* are the ones evaluated, so the packet threshold is not exceeded and the
\* address is not alerted, while another address is
C29_Witness ==
    /\ report_call.op = "report"
    /\ host_threshold_bps = 0 /\ host_threshold_pps > 0
    /\ \E ip \in ReportAddresses :
          /\ ip \in DOMAIN report_call.src_agg /\ ip \in DOMAIN report_call.dst_agg
          /\ report_call.src_agg[ip][2] = report_call.dst_agg[ip][2]
          /\ report_call.src_agg[ip][1] <= host_threshold_pps * host_call.interval_sec
          /\ report_call.dst_agg[ip][1] > host_threshold_pps * host_call.interval_sec
          /\ ip \notin AlertedIPs
    /\ \E i \in 1..Len(host_call.alerted) : host_call.alerted[i][2] = "destination"

\* FlowKey's natural order (tuple comparison) on the keys of the model:
\* ("10.0.1.1", "10.0.1.2", ...) < ("10.0.1.1", "10.0.1.3", ...) < ("10.0.1.2", ...)
FlowKeyRank(k) ==
    IF k[1] = "10.0.1.1" THEN (IF k[2] = "10.0.1.2" THEN 1 ELSE 2) ELSE 3

\* The flows sorted by bytes descending, equal byte counts by FlowKey
RECURSIVE NaturalSort(_, _)
NaturalSort(flows, ks) ==
    IF ks = {} THEN <<>>
    ELSE LET k == CHOOSE x \in ks : \A y \in ks \ {x} :
                      \/ flows[x][2] > flows[y][2]
                      \/ flows[x][2] = flows[y][2] /\ FlowKeyRank(x) < FlowKeyRank(y)
         IN  <<k>> \o NaturalSort(flows, ks \ {k})

LargestAddresses(agg, top) ==
    /\ top \subseteq DOMAIN agg
    /\ Cardinality(top) = Min(TopN, Cardinality(DOMAIN agg))
    /\ \A a \in top, b \in (DOMAIN agg) \ top : agg[a][2] >= agg[b][2]

AggregateIsSum(agg, pos) ==
    \A ip \in DOMAIN agg :
        agg[ip] = SumOver(report_call.flows, {k \in DOMAIN report_call.flows : k[pos] = ip})

\* C31: the top flows of a report are the (at most TopN) flows with the largest
\* byte counts in descending order of bytes, equal byte counts in FlowKey's
\* natural order; the top sources and destinations are the (at most TopN)
\* addresses with the largest aggregated bytes, each aggregate being the sum
\* over the flows having the address as source (resp. destination).
C31_TopSelection ==
    report_call.op = "report" =>
        /\ report_call.top_flows =
               FirstN(NaturalSort(report_call.flows, DOMAIN report_call.flows))
        /\ AggregateIsSum(report_call.src_agg, 1)
        /\ AggregateIsSum(report_call.dst_agg, 2)
        /\ LargestAddresses(report_call.src_agg, report_call.top_src)
        /\ LargestAddresses(report_call.dst_agg, report_call.top_dst)

----------------------------------------------------------------------------
\* Properties of the notification sinks

Attempted(sink) == \E i \in 1..Len(notify.attempts) : notify.attempts[i][1] = sink

Failed(sink) ==
    \E i \in 1..Len(notify.attempts) :
        notify.attempts[i][1] = sink /\ notify.attempts[i][2] # "sent"

\* C32: when publishing to a sink fails, no exception leaves check_fast,
\* check_detail or check_host, so the call returns its result; every configured
\* sink is attempted even when the first one failed; and the alert state the
\* call advanced stays advanced.
C32_NotificationFailure ==
    (notify.op # "none" /\ notify.emitted) =>
        /\ ~notify.raised
        /\ \A sink \in sinks : Attempted(sink)
        /\ notify.op = "check_fast" =>
              last_alert_time = call.t /\ pending_detail
        /\ notify.op = "check_host" =>
              \A i \in 1..Len(host_call.alerted) :
                  host_cooldowns[host_call.alerted[i][1]] = host_call.t

----------------------------------------------------------------------------
\* Properties of the startup

\* The blocking refresh of IPEnricher.start() has been attempted and is over
InitialRefreshDone ==
    /\ ref_last.outcome # "none"
    /\ ref_last.thread = "main"
    /\ ref.pc = "idle"

WorkersLaunched == \E w \in Workers : wpc[w] # "unlaunched"

\* C33: IPEnricher.start() completes one blocking refresh attempt before it
\* starts the refresher thread and before it returns; Coordinator.start() calls
\* it before launching any worker; so no report is produced before the initial
\* refresh attempt has finished.
C33_StartupOrder ==
    /\ bg_pc # "unstarted" => InitialRefreshDone
    /\ main_pc = "ready" => InitialRefreshDone /\ bg_pc # "unstarted"
    /\ WorkersLaunched => main_pc = "ready"
    /\ reports # <<>> => InitialRefreshDone

\* A report is produced after an initial refresh that failed
C33_Witness ==
    /\ reports # <<>>
    /\ ref_last.outcome = "failed"
    /\ ref_last.thread = "main"

----------------------------------------------------------------------------
\* The cooldown after a follow-up

\* The last call was made after a [FAST] and its [DETAIL], no alert since
AfterFastAndDetail ==
    /\ call.pre_fast_at >= 0
    /\ ~call.pre_unanswered
    /\ ~call.pre_pending
    /\ call.pre_last = call.pre_fast_at

\* C34: a [DETAIL] follow-up does not update last_alert_time: after a [FAST] at
\* time t and its [DETAIL], last_alert_time is still t, and a later breaching
\* check_fast or standalone check_detail is suppressed exactly while less than
\* cooldown_sec has passed since t, whenever the [DETAIL] was emitted.
C34_DetailKeepsStamp ==
    /\ (call.op = "check_detail" /\ call.emit = "DETAIL") =>
          /\ mon.fast_at >= 0
          /\ last_alert_time = mon.fast_at
    /\ (call.op # "none" /\ AfterFastAndDetail /\ CallBreach) =>
          (call.emit = "none" <=> call.t - call.pre_fast_at < CooldownSec)

\* A [DETAIL] is emitted later than its [FAST]
C34_Witness ==
    /\ call.op = "check_detail"
    /\ call.emit = "DETAIL"
    /\ call.t > mon.fast_at
    /\ last_alert_time = mon.fast_at

----------------------------------------------------------------------------
\* The two tiers of the run loop

\* C35: the quick check and the report of the same poll judge the same data on
\* the same scale: when a poll calls check_fast and then reports the same
\* accumulator, the packet and byte totals _report hands to check_detail equal
\* the totals check_fast was given.
C35_TiersSameScale ==
    [][(/\ cpc = "rollover"
        /\ fast_check.state = "called"
        /\ Len(reports') = Len(reports) + 1
        /\ reports'[Len(reports')].by = "loop") =>
            /\ Totals(reports'[Len(reports')].flows)[1] = fast_check.total_packets
            /\ Totals(reports'[Len(reports')].flows)[2] = fast_check.total_bytes]_vars

----------------------------------------------------------------------------
\* The run loop after the shutdown

\* C36: once a stop() has run to completion (its self._enricher.stop() is
\* done), the run loop emits no further report and makes no further check_fast
\* call.
C36_QuietAfterStop ==
    [][enricher_stops >= 1 =>
          /\ (Len(reports') > Len(reports) => reports'[Len(reports')].by # "loop")
          /\ (fast_check'.state = "called" => fast_check' = fast_check)]_vars

----------------------------------------------------------------------------
\* The refresher after stop()

\* IPEnricher.stop() has returned
EnricherStopped == main_pc = "ready" /\ ~running

\* C37: after IPEnricher.stop() has returned, the refresher thread publishes no
\* new snapshot: it begins no refresh and no refresh of its own ends with the
\* cache replaced.
C37_RefresherStopsPublishing ==
    [][EnricherStopped =>
          /\ (ref_last' # ref_last => ref_last'.outcome # "published")
          /\ (ref.pc = "idle" => ref'.pc = "idle")]_vars

----------------------------------------------------------------------------
\* The reporter of the single-process probe

\* C38: while the reporter is running, an interval whose flushed table is
\* non-empty produces a logged report followed by an alert-engine check that
\* completes without error, and the reporter thread keeps running: it is never
\* ended by an exception.
C38_ReporterKeepsRunning == rep.pc # "dead"

----------------------------------------------------------------------------
\* The two tiers side by side

GlobalInCooldown == now - last_alert_time < CooldownSec

HostEligible(ip) == HostCallBreach(ip) /\ host_call.t - PreLast(ip) >= CooldownSec

\* What each tier's last call did follows from that tier's own state alone
TiersDecideAlone ==
    /\ host_call.op = "check_host" =>
          /\ \A ip \in AlertedIPs : HostEligible(ip)
          /\ (\E ip \in IPs : HostEligible(ip)) => AlertedIPs # {}
    /\ call.op = "check_fast" =>
          (call.emit = "FAST" <=> (CallBreach /\ call.t - call.pre_last >= CooldownSec))
    /\ call.op = "check_detail" =>
          /\ call.emit = "DETAIL" <=> (call.pre_pending /\ CallBreach)
          /\ call.emit = "ALERT" <=>
                (~call.pre_pending /\ CallBreach /\ call.t - call.pre_last >= CooldownSec)

\* C39: check_host and the global tier do not interfere: a check_host call
\* leaves last_alert_time and pending_detail, a check_fast or check_detail call
\* leaves the per-host cooldown map, a host alert is decided by the host's own
\* rate and cooldown even while the global tier is in cooldown, and a global
\* alert by the global state even when a host was alerted a moment ago.
C39_TiersIndependent ==
    /\ []TiersDecideAlone
    /\ [][/\ host_call' # host_call => UNCHANGED <<last_alert_time, pending_detail>>
          /\ call' # call => UNCHANGED host_cooldowns]_vars

\* A host is alerted while the global tier is in cooldown
C39_Witness ==
    /\ host_call.op = "check_host"
    /\ AlertedIPs # {}
    /\ GlobalInCooldown
    /\ last_alert_time > 0

----------------------------------------------------------------------------
\* Properties of the mirror-session lifecycle

GoneStates == {"terminated", "shutting-down", "stopped"}

\* The instance of the last invocation as describe_instances showed it
CallInstance == instances[mirror_call.instance_id]

====
